---- MODULE Spec2Model ----
(***************************************************************************)
(* The embedded telemetry service of the enterprise server                 *)
(* (enterprise/server/telemetry/service.py): the singleton                 *)
(* TelemetryService, its two background loops, start()/stop(), and the     *)
(* metric-batch and identity tables the loops read and write.              *)
(*                                                                         *)
(* The service runs on one asyncio event loop.  Every database call is     *)
(* synchronous and the collectors and the external client are called       *)
(* synchronously, so the only points at which a loop task gives up         *)
(* control are its two asyncio.sleep() calls: one pass of a loop body,     *)
(* from the while test to the next sleep, is one atomic step.              *)
(*                                                                         *)
(* Failures of the database, of the collectors and of the external client  *)
(* are inputs of each step, drawn with \E.                                 *)
(***************************************************************************)
EXTENDS Integers, Sequences, FiniteSets, TLC

\* ------------------------------------------------------------------ bounds
\* The clock stops after MaxDays days.
MaxDays == 7
\* No batch is sent unsuccessfully more than MaxAttempts times.
MaxAttempts == 1
\* At most MaxUsers rows in the user-settings table.
MaxUsers == 1
\* Direct calls of _collect_metrics() store at most MaxBatches batches.
MaxBatches == 2
\* An email has at most MaxEmailLen characters.
MaxEmailLen == 5
MaxEvents == 2
MaxSandboxes == 3

\* ------------------------------------------------- constants of the program
collection_interval_days == 7
upload_interval_hours == 24
license_warning_threshold_days == 4
bootstrap_check_interval_seconds == 180
normal_check_interval_seconds == 3600
SecondsPerDay == 86400
SecondsPerHour == 3600

\* A null timestamp column (Python None).
NoTime == -1
\* A null string column / an unset environment variable (Python None).
None == "None"
\* days_since_upload when there is none (Python None).
NoDays == -1

\* The environment variable OPENHANDS_ADMIN_EMAIL, when it is set.
EnvAdminEmail == "admin@env"
\* The e-mail of the k-th row of the user-settings table, when it has one.
UserEmail(k) == IF k = 1 THEN "first@corp" ELSE "later@corp"

\* What the external client returns: customer.customer_id, instance.instance_id.
ReplicatedCustomerId == "cust-123"
ReplicatedInstanceId == "inst-456"
\* str(uuid.uuid4()), the locally generated fallback instance id.
FallbackUuid == "uuid4"

\* The registered collectors; each contributes one key, named after itself.
Collectors == {"c1", "c2"}
CollectorOutcomes == {"ok", "decline", "raise"}

VARIABLES
    now,                \* datetime.now(timezone.utc), in seconds
    metrics,            \* the telemetry_metrics table, a sequence indexed by row id
    identity,           \* the telemetry_identity row with id = 1
    users,              \* the user_settings table
    admin_email_env,    \* os.getenv('OPENHANDS_ADMIN_EMAIL')
    replicated_available, \* REPLICATED_AVAILABLE
    shutdown_event,     \* self._shutdown_event.is_set()
    collection_task,    \* self._collection_task: 0 (None) or the task's number
    upload_task,        \* self._upload_task: 0 (None) or the task's number
    tasks_created,      \* number of asyncio.create_task() calls made by start()
    start_result,       \* what the last start() call did
    collection_pc,      \* where the collection loop task is
    upload_pc,          \* where the upload loop task is
    initial_pc,         \* where the initial collection check task is
    collection_cancel,  \* cancel() was called on the running collection task
    upload_cancel,      \* cancel() was called on the running upload task
    collection_interval,\* argument of the sleep the collection loop is in, else 0
    upload_interval,    \* argument of the sleep the upload loop is in, else 0
    collection_log,     \* what the last pass of the collection loop logged
    upload_log,         \* what the last pass of the upload loop logged
    stop_pc,            \* where the stop() call is
    probe,              \* the last direct call of an operation, its result
    blocked_domains,    \* DomainBlocker.blocked_domains
    email_arg,          \* the email an is_domain_blocked() call is given
    lifespan,           \* where the telemetry_lifespan context manager is
    sharing,            \* the conversations, their events, the service calls
    sandboxes           \* the sandboxes search_sandboxes() returns

vars == <<now, metrics, identity, users, admin_email_env, replicated_available,
          shutdown_event, collection_task, upload_task, tasks_created,
          start_result, collection_pc, upload_pc, initial_pc,
          collection_cancel, upload_cancel, collection_interval,
          upload_interval, collection_log, upload_log, stop_pc,
          probe, blocked_domains, email_arg, lifespan, sharing, sandboxes>>

\* --------------------------------------------------------------- helpers
Max(S) == CHOOSE m \in S : \A x \in S : x <= m
Min(S) == CHOOSE m \in S : \A x \in S : m <= x

Ids(table) == 1..Len(table)

\* A task that has run to its end, by returning or by cancellation.
Finished(pc) == pc \in {"returned", "cancelled"}
\* A task that exists and has not finished.
Running(pc) == pc \in {"created", "sleep", "errsleep"}

NoIdentity == [exists |-> FALSE, customer_id |-> None, instance_id |-> None]

\* What a pass of the collection loop leaves in the log: whether the
\* identity query failed ("Error checking identity status").
NoCollectionLog == [id_query_failed |-> FALSE]

\* What a pass of the upload loop leaves in the log and at the client:
\*   id_query_failed   the identity query failed
\*   stage             how far _upload_pending_metrics() got ("none" when
\*                     the pass did not run it)
\*   client_called     a call to the external client was made
\*   sent              the pending batches sent, in order, and whether the
\*                     send succeeded
UploadLog(id_query_failed, stage, client_called, sent) ==
    [id_query_failed |-> id_query_failed, stage |-> stage,
     client_called |-> client_called, sent |-> sent]

NoUploadLog == UploadLog(FALSE, "none", FALSE, <<>>)


\* ------------------------------------------------------ TelemetryService
\* Mutant: the failing query is not caught and answered False.
_is_identity_established_uncaught(ident, query_fails) ==
    /\ ident.exists
    /\ ident.customer_id # None
    /\ ident.instance_id # None

\* _is_identity_established(): the identity row exists and both ids are set;
\* a failing query is logged and answers False.
_is_identity_established(ident, query_fails) ==
    IF query_fails THEN FALSE
    ELSE /\ ident.exists
         /\ ident.customer_id # None
         /\ ident.instance_id # None

\* The interval a loop chooses at the top of a pass.
check_interval(identity_established) ==
    IF identity_established THEN normal_check_interval_seconds
    ELSE bootstrap_check_interval_seconds

\* Mutant: the days are rounded up.
DaysSince_rounded_up(t, since) == (t - since + SecondsPerDay - 1) \div SecondsPerDay

\* timedelta.days of (t - since): whole days, rounded down.
DaysSince(t, since) == (t - since) \div SecondsPerDay

\* _should_collect(): no batch yet, or collection_interval_days whole days
\* since the latest collected_at; a failing query answers False.
_should_collect(table, t, query_fails) ==
    IF query_fails THEN FALSE
    ELSE IF Len(table) = 0 THEN TRUE
    ELSE LET last_collected == Max({table[i].collected_at : i \in Ids(table)})
         IN  DaysSince(t, last_collected) >= collection_interval_days

UploadedIds(table) == {i \in Ids(table) : table[i].uploaded_at # NoTime}
\* Mutant: the filter `uploaded_at IS NULL` is missing.
PendingIds_all(table) == Ids(table)

\* The rows with uploaded_at IS NULL (lines 387 and 322).
PendingIds(table) == {i \in Ids(table) : table[i].uploaded_at = NoTime}

\* Mutant: a pending batch is enough, whenever the last upload was.
_should_upload_when_pending(table, t, query_fails) ==
    IF query_fails THEN FALSE
    ELSE IF Cardinality(PendingIds(table)) > 0 THEN TRUE
    ELSE /\ UploadedIds(table) # {}
         /\ LET last_uploaded == Max({table[i].uploaded_at : i \in UploadedIds(table)})
            IN  (t - last_uploaded) >= upload_interval_hours * SecondsPerHour

\* Mutant: with no uploaded batch the answer is False.
_should_upload_after_first(table, t, query_fails) ==
    IF query_fails \/ UploadedIds(table) = {} THEN FALSE
    ELSE LET last_uploaded == Max({table[i].uploaded_at : i \in UploadedIds(table)})
         IN  (t - last_uploaded) >= upload_interval_hours * SecondsPerHour

\* _should_upload(): with no uploaded batch, whether a pending one exists;
\* otherwise whether total_seconds()/3600 since the latest uploaded_at has
\* reached upload_interval_hours; a failing query answers False.
_should_upload(table, t, query_fails) ==
    IF query_fails THEN FALSE
    ELSE IF UploadedIds(table) = {} THEN Cardinality(PendingIds(table)) > 0
    ELSE LET last_uploaded == Max({table[i].uploaded_at : i \in UploadedIds(table)})
         IN  (t - last_uploaded) >= upload_interval_hours * SecondsPerHour

\* Mutant: the warning starts at the threshold.
LicenseWarning_at_threshold(days_since_upload) ==
    days_since_upload >= license_warning_threshold_days

\* Line 555: the warning is due when the days exceed the threshold.
LicenseWarning(days_since_upload) ==
    days_since_upload > license_warning_threshold_days

\* get_license_warning_status(): with no uploaded batch, no warning and no
\* days; otherwise the whole days since the latest uploaded_at and whether
\* they exceed the threshold; a failing query is logged and answers as if
\* nothing had been uploaded, with an error message.
get_license_warning_status(table, t, query_fails) ==
    IF query_fails
    THEN [should_warn |-> FALSE, days_since_upload |-> NoDays,
          message |-> "Error"]
    ELSE IF UploadedIds(table) = {}
    THEN [should_warn |-> FALSE, days_since_upload |-> NoDays,
          message |-> "No uploads yet"]
    ELSE LET last_uploaded == Max({table[i].uploaded_at : i \in UploadedIds(table)})
             days_since_upload == DaysSince(t, last_uploaded)
         IN  [should_warn |-> LicenseWarning(days_since_upload),
              days_since_upload |-> days_since_upload,
              message |-> "Last upload"]

\* The order in which get_all_collectors() lists the collectors.
CollectorOrder == <<"c1", "c2">>

RECURSIVE RunCollectors_abort(_, _, _)
\* Mutant: the exception of a collector leaves the for loop.
RunCollectors_abort(k, outcomes, acc) ==
    IF k > Len(CollectorOrder) THEN acc
    ELSE LET c == CollectorOrder[k]
             invoked == Append(acc.invoked, c)
         IN  IF outcomes[c] = "raise"
             THEN [invoked |-> invoked, all_metrics |-> acc.all_metrics]
             ELSE RunCollectors_abort(k + 1, outcomes,
                      [invoked |-> invoked,
                       all_metrics |-> IF outcomes[c] = "ok"
                                       THEN acc.all_metrics \cup {c}
                                       ELSE acc.all_metrics])

RECURSIVE RunCollectors(_, _, _)
\* The for loop of _collect_metrics() from the k-th collector on: each
\* collector is asked should_collect(); one that accepts and returns adds
\* its result (under its own key) to all_metrics; one that declines adds
\* nothing; one that raises is logged, and the loop goes on.
RunCollectors(k, outcomes, acc) ==
    IF k > Len(CollectorOrder) THEN acc
    ELSE LET c == CollectorOrder[k]
         IN  RunCollectors(k + 1, outcomes,
                 [invoked |-> Append(acc.invoked, c),
                  all_metrics |-> IF outcomes[c] = "ok"
                                  THEN acc.all_metrics \cup {c}
                                  ELSE acc.all_metrics])

\* The collectors a collection run invoked, in order.
InvokedCollectors(outcomes) ==
    RunCollectors(1, outcomes, [invoked |-> <<>>, all_metrics |-> {}]).invoked

\* The keys a collection run gathers: a collector that declines
\* (should_collect() false) or raises contributes nothing and stops nobody.
CollectedKeys(outcomes) ==
    RunCollectors(1, outcomes, [invoked |-> <<>>, all_metrics |-> {}]).all_metrics

NewBatch(t, data) ==
    [metrics_data |-> data, collected_at |-> t, uploaded_at |-> NoTime,
     upload_attempts |-> 0, last_upload_error |-> None]

\* _collect_metrics(): one new batch holding what the collectors returned;
\* when the store fails the exception is logged and nothing is added.
_collect_metrics(table, t, outcomes, store_fails) ==
    IF store_fails THEN table
    ELSE Append(table, NewBatch(t, CollectedKeys(outcomes)))

\* Mutant: the filter on accepted_tos is missing.
EligibleUsers_any_tos(rows) ==
    {k \in Ids(rows) : rows[k].email # None}

\* The user rows _get_admin_email() looks at: accepted_tos and email set.
EligibleUsers(rows) ==
    {k \in Ids(rows) : rows[k].accepted_tos # NoTime /\ rows[k].email # None}

\* The rows that can come first in ORDER BY accepted_tos (ties are the
\* database's choice).
FirstUsers(rows) ==
    {k \in EligibleUsers(rows) :
        \A j \in EligibleUsers(rows) : rows[k].accepted_tos <= rows[j].accepted_tos}

\* _get_admin_email(): the values the call can return.  The environment
\* variable wins; else the first user that accepted the ToS and has an
\* e-mail; a failing user query is logged and gives None.
_get_admin_email(env, rows, query_fails) ==
    IF env # None THEN {env}
    ELSE IF query_fails \/ EligibleUsers(rows) = {} THEN {None}
    ELSE {rows[k].email : k \in FirstUsers(rows)}

\* Mutant: customer_id is not set from the admin e-mail.
_get_or_create_identity_no_customer(ident, admin_email, available, client_fails) ==
    [exists |-> TRUE,
     customer_id |-> ident.customer_id,
     instance_id |-> IF ident.instance_id # None THEN ident.instance_id
                     ELSE IF available /\ ~client_fails THEN ReplicatedInstanceId
                     ELSE FallbackUuid]

\* Mutant: no locally generated instance id when the client call fails.
_get_or_create_identity_no_fallback(ident, admin_email, available, client_fails) ==
    [exists |-> TRUE,
     customer_id |-> IF ident.customer_id = None THEN admin_email
                     ELSE ident.customer_id,
     instance_id |-> IF ident.instance_id # None THEN ident.instance_id
                     ELSE IF available /\ ~client_fails THEN ReplicatedInstanceId
                     ELSE None]

\* _get_or_create_identity(): the row as it is committed at the end of the
\* call.  Ids that are already set are kept.
_get_or_create_identity(ident, admin_email, available, client_fails) ==
    [exists |-> TRUE,
     customer_id |-> IF ident.customer_id = None THEN admin_email
                     ELSE ident.customer_id,
     instance_id |-> IF ident.instance_id # None THEN ident.instance_id
                     ELSE IF available /\ ~client_fails THEN ReplicatedInstanceId
                     ELSE FallbackUuid]

\* Mutant: the customer id of the client is dropped.
UpdateIdentity_drops_customer(ident) ==
    [ident EXCEPT !.customer_id = None,
                  !.instance_id = ReplicatedInstanceId]

\* Lines 424-425: the identity takes the ids the external client returned.
UpdateIdentity(ident) ==
    [ident EXCEPT !.customer_id = ReplicatedCustomerId,
                  !.instance_id = ReplicatedInstanceId]

RECURSIVE SortByCollectedAt_desc(_, _)
\* Mutant: ORDER BY collected_at DESC.
SortByCollectedAt_desc(table, ids) ==
    IF ids = {} THEN <<>>
    ELSE LET first == Max({table[i].collected_at : i \in ids})
             i0 == Min({i \in ids : table[i].collected_at = first})
         IN  <<i0>> \o SortByCollectedAt_desc(table, ids \ {i0})

\* The pending batches in ORDER BY collected_at (row id breaks ties).
RECURSIVE SortByCollectedAt(_, _)
SortByCollectedAt(table, ids) ==
    IF ids = {} THEN <<>>
    ELSE LET first == Min({table[i].collected_at : i \in ids})
             i0 == Min({i \in ids : table[i].collected_at = first})
         IN  <<i0>> \o SortByCollectedAt(table, ids \ {i0})

\* One pass of the upload loop body over a pending batch.
UploadOne(batch, t, send_ok) ==
    IF send_ok
    THEN [batch EXCEPT !.uploaded_at = t,
                       !.upload_attempts = @ + 1,
                       !.last_upload_error = None]
    ELSE [batch EXCEPT !.upload_attempts = @ + 1,
                       !.last_upload_error = "error"]

\* Mutant: the first failing batch ends the for loop.
UploadAll_abort(table, t, sends) ==
    [i \in Ids(table) |->
        IF /\ table[i].uploaded_at = NoTime
           /\ \A j \in 1..(i - 1) : table[j].uploaded_at = NoTime => sends[j]
        THEN UploadOne(table[i], t, sends[i])
        ELSE table[i]]

\* The table after the for loop of lines 429-449.
UploadAll(table, t, sends) ==
    [i \in Ids(table) |->
        IF table[i].uploaded_at = NoTime THEN UploadOne(table[i], t, sends[i])
        ELSE table[i]]

RunResult(table, ident, stage, email, called, error, sent) ==
    [metrics |-> table, identity |-> ident, stage |-> stage,
     admin_email |-> email, client_called |-> called, error |-> error,
     sent |-> sent]

\* _upload_pending_metrics().  f holds what fails during the run:
\*   f.fail_at           the database or client call that raises out of the
\*                       run's try block ("none" when none does)
\*   f.admin_query_fails the user query of _get_admin_email raises
\*   f.id_client_fails   the client call inside _get_or_create_identity raises
\*   f.sends[i]          whether batch i's send_metric/set_status calls succeed
\* env is OPENHANDS_ADMIN_EMAIL and email the value _get_admin_email returned.
_upload_pending_metrics(table, ident, t, available, env, email, f) ==
    LET pending == SortByCollectedAt(table, PendingIds(table))
        admin_error == env = None /\ f.admin_query_fails
        needs_instance == ident.instance_id = None
        created == _get_or_create_identity(ident, email, available,
                                           f.id_client_fails)
        id_error == admin_error \/ (needs_instance /\ f.id_client_fails)
        sent == [k \in 1..Len(pending) |->
                    [id |-> pending[k], ok |-> f.sends[pending[k]]]]
        send_error == \E k \in 1..Len(pending) : ~f.sends[pending[k]]
    IN
    IF ~available
    THEN RunResult(table, ident, "sdk_unavailable", None, FALSE, FALSE, <<>>)
    ELSE IF f.fail_at = "pending_query"
    THEN RunResult(table, ident, "query_failed", None, FALSE, TRUE, <<>>)
    ELSE IF Len(pending) = 0
    THEN RunResult(table, ident, "no_pending", None, FALSE, FALSE, <<>>)
    ELSE IF email = None
    THEN RunResult(table, ident, "no_admin_email", None, FALSE, admin_error, <<>>)
    ELSE IF f.fail_at = "identity_query"
    THEN RunResult(table, ident, "identity_failed", email, FALSE, TRUE, <<>>)
    ELSE IF f.fail_at = "identity_commit"
    THEN RunResult(table, ident, "identity_failed", email, needs_instance, TRUE, <<>>)
    ELSE IF f.fail_at = "client"
    THEN RunResult(table, created, "client_failed", email, TRUE, TRUE, <<>>)
    ELSE IF f.fail_at = "ids_commit"
    THEN RunResult(table, created, "ids_commit_failed", email, TRUE, TRUE, <<>>)
    ELSE IF f.fail_at = "final_commit"
    THEN RunResult(table, UpdateIdentity(created), "commit_failed", email, TRUE,
                   TRUE, sent)
    ELSE RunResult(UploadAll(table, t, f.sends), UpdateIdentity(created),
                   "committed", email, TRUE, id_error \/ send_error, sent)

\* The send results of a run: every pending batch succeeds or fails, the
\* uploaded ones are not sent.
SendResults(table) ==
    {sends \in [Ids(table) -> BOOLEAN] : \A i \in UploadedIds(table) : sends[i]}

AllSent(table) == [i \in Ids(table) |-> TRUE]

\* What can fail during one upload run over `table`.  A failure that an
\* earlier failure keeps the run from reaching is left out.
UploadFailures(table) ==
    [fail_at : {"none", "final_commit"}, admin_query_fails : BOOLEAN,
     id_client_fails : BOOLEAN, sends : SendResults(table)]
    \cup [fail_at : {"identity_commit", "client", "ids_commit"},
          admin_query_fails : BOOLEAN, id_client_fails : BOOLEAN,
          sends : {AllSent(table)}]
    \cup [fail_at : {"identity_query"}, admin_query_fails : BOOLEAN,
          id_client_fails : {FALSE}, sends : {AllSent(table)}]
    \cup [fail_at : {"pending_query"}, admin_query_fails : {FALSE},
          id_client_fails : {FALSE}, sends : {AllSent(table)}]

\* ---------------------------------------------------------- DomainBlocker
\* A string is a sequence of characters; a null string (Python None) is
\* the one-element sequence holding None.
NullStr == <<None>>

\* The characters of the strings: letters (one of them in both cases), the
\* dot, the at sign and a whitespace character.
Chars == {"a", "A", "b", ".", "@", " "}

\* The strings of at most n characters.
Strings(n) == UNION {[1..k -> Chars] : k \in 0..n}

\* c in s
Contains(s, c) == \E k \in 1..Len(s) : s[k] = c

\* The positions of c in s, and the first of them at or after position k
\* (Len(s) + 1 when there is none).
Positions(s, c) == {k \in 1..Len(s) : s[k] = c}
NextPosition(s, c, k) == Min({j \in Positions(s, c) : j >= k} \cup {Len(s) + 1})

RECURSIVE SplitFrom(_, _, _)
\* s.split(c), for the part of s from position k on.
SplitFrom(s, c, k) ==
    LET j == NextPosition(s, c, k)
    IN  IF j > Len(s) THEN <<SubSeq(s, k, Len(s))>>
        ELSE <<SubSeq(s, k, j - 1)>> \o SplitFrom(s, c, j + 1)

\* s.split(c): the segments of s between the occurrences of c.
Split(s, c) == SplitFrom(s, c, 1)

IsSpace(c) == c = " "

RECURSIVE Strip(_)
\* s.strip(): s without its leading and trailing whitespace.
Strip(s) ==
    IF Len(s) = 0 THEN s
    ELSE IF IsSpace(s[1]) THEN Strip(Tail(s))
    ELSE IF IsSpace(s[Len(s)]) THEN Strip(SubSeq(s, 1, Len(s) - 1))
    ELSE s

\* s.lower()
LowerChar(c) == IF c = "A" THEN "a" ELSE c
Lower(s) == [k \in 1..Len(s) |-> LowerChar(s[k])]

\* s.startswith(prefix), s.endswith(suffix)
StartsWith(s, prefix) ==
    /\ Len(prefix) <= Len(s)
    /\ SubSeq(s, 1, Len(prefix)) = prefix
EndsWith(s, suffix) ==
    /\ Len(suffix) <= Len(s)
    /\ SubSeq(s, Len(s) - Len(suffix) + 1, Len(s)) = suffix

\* `not email`: the email is None or empty.
NotStr(s) == s = NullStr \/ Len(s) = 0

\* is_active(): the block list is not empty.
is_active(patterns) == Len(patterns) > 0

\* Mutant: neither strip() nor lower() is applied.
_extract_domain_unnormalised(email_str) ==
    IF NotStr(email_str) THEN NullStr
    ELSE IF ~Contains(email_str, "@") THEN NullStr
    ELSE LET domain == Split(email_str, "@")[2]
         IN  IF Len(domain) > 0 THEN domain ELSE NullStr

\* Mutant: the test for '@' is missing and the last segment is taken.
_extract_domain_last_segment(email_str) ==
    IF NotStr(email_str) THEN NullStr
    ELSE LET parts == Split(email_str, "@")
             domain == Lower(Strip(parts[Len(parts)]))
         IN  IF Len(domain) > 0 THEN domain ELSE NullStr

\* _extract_domain(): None for no email and for an email without '@';
\* otherwise the second segment of email.split('@'), stripped and
\* lower-cased, or None when that is empty.
_extract_domain(email_str) ==
    IF NotStr(email_str) THEN NullStr
    ELSE IF ~Contains(email_str, "@") THEN NullStr
    ELSE LET domain == Lower(Strip(Split(email_str, "@")[2]))
         IN  IF Len(domain) > 0 THEN domain ELSE NullStr

\* Mutant: a TLD pattern matches without its dot.
PatternBlocks_undotted(blocked_pattern, domain) ==
    IF StartsWith(blocked_pattern, <<".">>)
    THEN EndsWith(domain, Tail(blocked_pattern))
    ELSE \/ domain = blocked_pattern
         \/ EndsWith(domain, <<".">> \o blocked_pattern)

\* Mutant: an exact pattern matches any domain that ends with it.
PatternBlocks_any_suffix(blocked_pattern, domain) ==
    EndsWith(domain, blocked_pattern)

\* The body of the for loop of is_domain_blocked(): a pattern that starts
\* with a dot blocks the domains that end with it; another pattern blocks
\* the domain equal to it and the domains that end with '.' + pattern.
PatternBlocks(blocked_pattern, domain) ==
    IF StartsWith(blocked_pattern, <<".">>)
    THEN EndsWith(domain, blocked_pattern)
    ELSE \/ domain = blocked_pattern
         \/ EndsWith(domain, <<".">> \o blocked_pattern)

\* The domain is_domain_blocked() tests: None when it returns before the
\* extraction.
TestedDomain(patterns, email_str) ==
    IF ~is_active(patterns) \/ NotStr(email_str) THEN NullStr
    ELSE _extract_domain(email_str)

\* is_domain_blocked(): false for an empty block list, no email or no
\* domain; otherwise whether some pattern of the list blocks the domain.
is_domain_blocked(patterns, email_str) ==
    IF ~is_active(patterns) THEN FALSE
    ELSE IF NotStr(email_str) THEN FALSE
    ELSE LET domain == _extract_domain(email_str)
         IN  IF NotStr(domain) THEN FALSE
             ELSE \E k \in 1..Len(patterns) : PatternBlocks(patterns[k], domain)

\* ------------------------------------------------------------------ Init
\* The lifespan context manager before the application enters it.
NoLifespan ==
    [pc |-> "none", start |-> "none", stop |-> "none", raised_at |-> "none",
     start_calls |-> 0, stop_calls |-> 0]

\* No conversation is shared, none is known to the event service, and
\* there is no event.
NoSharing ==
    [shared |-> {}, permitted |-> {}, events |-> <<>>, saves |-> <<>>]

\* No operation is being called directly.
NoProbe == [op |-> "none"]

\* A fresh installation: empty tables, the service constructed (__init__)
\* and not started.  The environment variable and the availability of the
\* client SDK are fixed when the process starts.
TelemetryInit ==
    /\ now = 0
    /\ metrics = <<>>
    /\ identity = NoIdentity
    /\ users = <<>>
    /\ admin_email_env \in {None, EnvAdminEmail}
    /\ replicated_available \in BOOLEAN
    /\ shutdown_event = FALSE
    /\ collection_task = 0
    /\ upload_task = 0
    /\ tasks_created = 0
    /\ start_result = "none"
    /\ collection_pc = "none"
    /\ upload_pc = "none"
    /\ initial_pc = "none"
    /\ collection_cancel = FALSE
    /\ upload_cancel = FALSE
    /\ collection_interval = 0
    /\ upload_interval = 0
    /\ collection_log = NoCollectionLog
    /\ upload_log = NoUploadLog
    /\ stop_pc = "idle"
    /\ lifespan = NoLifespan

\* The telemetry service alone: no direct call, an empty block list, no
\* conversation and no sandbox.
Init ==
    /\ TelemetryInit
    /\ probe = NoProbe
    /\ blocked_domains = <<>>
    /\ email_arg = NullStr
    /\ sharing = NoSharing
    /\ sandboxes = <<>>

db_vars == <<metrics, identity>>
env_vars == <<admin_email_env, replicated_available>>
arg_vars == <<blocked_domains, email_arg, sharing, sandboxes>>
call_vars == <<probe, arg_vars>>
task_vars == <<collection_task, upload_task, tasks_created>>
collection_vars == <<collection_pc, collection_cancel, collection_interval,
                     collection_log>>
upload_vars == <<upload_pc, upload_cancel, upload_interval, upload_log>>

\* ----------------------------------------------------------- environment
\* Time passes.  The clock is read at multiples of the collection interval:
\* at each step a collection and an upload are due again.
ClockStep == collection_interval_days * SecondsPerDay

Advance ==
    /\ now + ClockStep <= MaxDays * SecondsPerDay
    /\ now' = now + ClockStep
    /\ UNCHANGED <<db_vars, users, env_vars, call_vars, lifespan, shutdown_event,
                   task_vars, start_result, collection_vars, upload_vars, initial_pc,
                   stop_pc>>

\* A user row appears in user_settings, with an e-mail; the user has
\* accepted the ToS or not.  (With OPENHANDS_ADMIN_EMAIL set the table is
\* never read.)
UserKinds == {<<TRUE, TRUE>>, <<FALSE, TRUE>>}

UserSignup ==
    /\ admin_email_env = None
    /\ Len(users) < MaxUsers
    /\ \E kind \in UserKinds :
        users' = Append(users,
            [accepted_tos |-> IF kind[1] THEN now ELSE NoTime,
             email |-> IF kind[2] THEN UserEmail(Len(users) + 1) ELSE None])
    /\ UNCHANGED <<now, db_vars, env_vars, call_vars, lifespan, shutdown_event,
                   task_vars, start_result, collection_vars, upload_vars, initial_pc,
                   stop_pc>>

\* ------------------------------------------------------- start() / stop()
\* Mutant: the test is missing.
AlreadyStarted_unchecked(ctask, utask) == FALSE

\* The test of line 110.
AlreadyStarted(ctask, utask) == ctask # 0 \/ utask # 0

\* start(): creates the two loop tasks and the initial collection check,
\* unless a task handle is already set.
start ==
    /\ IF AlreadyStarted(collection_task, upload_task)
       THEN /\ start_result' = "already_started"
            /\ UNCHANGED <<task_vars, collection_pc, upload_pc, initial_pc,
                           collection_cancel, upload_cancel>>
       ELSE /\ start_result' = "started"
            /\ collection_task' = tasks_created + 1
            /\ upload_task' = tasks_created + 2
            /\ tasks_created' = tasks_created + 3
            /\ collection_pc' = "created"
            /\ upload_pc' = "created"
            /\ initial_pc' = "created"
            /\ collection_cancel' = FALSE
            /\ upload_cancel' = FALSE
    /\ UNCHANGED <<now, db_vars, users, env_vars, call_vars, shutdown_event,
                   collection_interval, upload_interval, collection_log,
                   upload_log, stop_pc>>

\* task.cancel(): a request that takes effect when the task next runs; on a
\* finished task it does nothing.
Cancel(pc) == Running(pc)

\* `await task` on a finished task: a cancelled task raises CancelledError
\* in the awaiter, a task that returned raises nothing.
AwaitException(pc) == IF pc = "cancelled" THEN "CancelledError" ELSE "none"

\* Mutant: stop() has no except clause.
Swallowed_nothing(exc) == FALSE

\* The except clauses of stop() (lines 137 and 144).
Swallowed(exc) == exc = "CancelledError"

\* Whether the await of stop() lets an exception out of stop().
AwaitRaises(pc) ==
    AwaitException(pc) # "none" /\ ~Swallowed(AwaitException(pc))

\* stop(), up to its first await: set the shutdown event, cancel the
\* collection task and wait for it.
stop ==
    /\ stop_pc = "idle"
    /\ shutdown_event' = TRUE
    /\ IF collection_task # 0
       THEN /\ collection_cancel' = Cancel(collection_pc)
            /\ upload_cancel' = upload_cancel
            /\ stop_pc' = "await_collection"
       ELSE IF upload_task # 0
       THEN /\ upload_cancel' = Cancel(upload_pc)
            /\ collection_cancel' = collection_cancel
            /\ stop_pc' = "await_upload"
       ELSE /\ UNCHANGED <<collection_cancel, upload_cancel>>
            /\ stop_pc' = "returned"
    /\ UNCHANGED <<now, db_vars, users, env_vars, call_vars, task_vars,
                   start_result,
                   collection_pc, upload_pc, initial_pc, collection_interval,
                   upload_interval, collection_log, upload_log>>

\* stop(), resumed when the collection task has finished: cancel the upload
\* task and wait for it.
stop_collection_awaited ==
    /\ stop_pc = "await_collection"
    /\ Finished(collection_pc)
    /\ IF AwaitRaises(collection_pc)
       THEN /\ stop_pc' = "raised"
            /\ upload_cancel' = upload_cancel
       ELSE IF upload_task # 0
       THEN /\ upload_cancel' = Cancel(upload_pc)
            /\ stop_pc' = "await_upload"
       ELSE /\ upload_cancel' = upload_cancel
            /\ stop_pc' = "returned"
    /\ UNCHANGED <<now, db_vars, users, env_vars, call_vars, lifespan, shutdown_event,
                   task_vars, start_result, collection_vars, upload_pc, upload_interval,
                   upload_log, initial_pc>>

\* stop(), resumed when the upload task has finished: return.
stop_upload_awaited ==
    /\ stop_pc = "await_upload"
    /\ Finished(upload_pc)
    /\ stop_pc' = IF AwaitRaises(upload_pc) THEN "raised" ELSE "returned"
    /\ UNCHANGED <<now, db_vars, users, env_vars, call_vars, lifespan, shutdown_event,
                   task_vars, start_result, collection_vars, upload_vars, initial_pc>>

\* ------------------------------------------------------ the two loops
\* Where a loop task ends up when the CancelledError of cancel() is thrown
\* into it: at the sleep inside the try block the loop catches it and
\* breaks (the task returns); at the sleep of the error handler, or before
\* the task ever ran, nothing catches it (the task is cancelled).
AfterCancel(pc) == IF pc = "sleep" THEN "returned" ELSE "cancelled"

\* The collection task is resumed with the CancelledError of stop().
collection_cancelled ==
    /\ Running(collection_pc)
    /\ collection_cancel
    /\ collection_pc' = AfterCancel(collection_pc)
    /\ collection_cancel' = FALSE
    /\ collection_interval' = 0
    /\ collection_log' = collection_log
    /\ UNCHANGED <<now, db_vars, users, env_vars, call_vars, lifespan, shutdown_event,
                   task_vars, start_result, upload_vars, initial_pc, stop_pc>>

\* The upload task is resumed with the CancelledError of stop().
upload_cancelled ==
    /\ Running(upload_pc)
    /\ upload_cancel
    /\ upload_pc' = AfterCancel(upload_pc)
    /\ upload_cancel' = FALSE
    /\ upload_interval' = 0
    /\ UNCHANGED <<now, db_vars, users, env_vars, call_vars, lifespan, shutdown_event,
                   task_vars, start_result, upload_log, collection_vars, initial_pc,
                   stop_pc>>

\* Mutant: an exception that reaches the loop ends the task.
SleepPc_exits(raised) == IF raised THEN "cancelled" ELSE "sleep"

\* Where a loop goes after a pass: the sleep of the try block, or, when an
\* exception reached the handler of the loop, the sleep of the handler.
SleepPc(raised) == IF raised THEN "errsleep" ELSE "sleep"

\* The argument of that sleep.
SleepInterval(raised, interval) ==
    IF raised THEN bootstrap_check_interval_seconds ELSE interval

\* What can fail during one pass of the collection loop:
\*   id_query_fails   the query of _is_identity_established raises
\*   should_fails     the query of _should_collect raises
\*   outcomes         what each collector does
\*   store_fails      the registry or the insert/commit of the batch raises
\*   raises           an exception reaches the handler of the loop
\* A failure that an earlier failure keeps the pass from reaching is left out.
AllCollect == [c \in Collectors |-> "ok"]

\* What the collectors do in the runs of the loops: all succeed, or the
\* first one raises.
LoopOutcomes == {AllCollect, [AllCollect EXCEPT !["c1"] = "raise"]}

CollectionFailures ==
    [id_query_fails : BOOLEAN, should_fails : {FALSE}, outcomes : LoopOutcomes,
     store_fails : BOOLEAN, raises : {FALSE}]
    \cup [id_query_fails : BOOLEAN, should_fails : {TRUE},
          outcomes : {AllCollect}, store_fails : {FALSE}, raises : {FALSE}]
    \cup [id_query_fails : BOOLEAN, should_fails : {FALSE},
          outcomes : {AllCollect}, store_fails : {FALSE}, raises : {TRUE}]

\* Whether the pass with failures f runs _collect_metrics().
CollectionRuns(f) ==
    ~f.raises /\ _should_collect(metrics, now, f.should_fails)

\* Whether the pass reaches every call that f makes fail.
CollectionReaches(f) ==
    (f.store_fails \/ f.outcomes # AllCollect) => CollectionRuns(f)

\* One pass of the body of _collection_loop() under the failures f.
CollectionPass(f) ==
    LET identity_established ==
            _is_identity_established(identity, f.id_query_fails)
    IN  /\ CollectionReaches(f)
        /\ metrics' = IF CollectionRuns(f)
                      THEN _collect_metrics(metrics, now, f.outcomes, f.store_fails)
                      ELSE metrics
        /\ collection_pc' = SleepPc(f.raises)
        /\ collection_interval' =
               SleepInterval(f.raises, check_interval(identity_established))
        /\ collection_log' = [id_query_failed |-> f.id_query_fails]

\* _collection_loop(): one pass, from the while test to the next sleep.
_collection_loop ==
    /\ Running(collection_pc)
    /\ ~collection_cancel
    /\ IF shutdown_event
       THEN /\ collection_pc' = "returned"
            /\ collection_interval' = 0
            /\ UNCHANGED <<metrics, collection_log>>
       ELSE \E f \in CollectionFailures : CollectionPass(f)
    /\ UNCHANGED <<now, identity, users, env_vars, call_vars, lifespan, shutdown_event,
                   task_vars, start_result, collection_cancel, upload_vars, initial_pc,
                   stop_pc>>

\* What can fail during one pass of the upload loop: the failures of the
\* run, and
\*   id_query_fails   the query of _is_identity_established raises
\*   should_fails     the query of _should_upload raises
\*   raises           an exception reaches the handler of the loop
NoUploadFailure(table) ==
    [fail_at |-> "none", admin_query_fails |-> FALSE,
     id_client_fails |-> FALSE, sends |-> AllSent(table)]

UploadLoopFailures(table) ==
    [id_query_fails : BOOLEAN, should_fails : {FALSE}, raises : {FALSE},
     run : UploadFailures(table)]
    \cup [id_query_fails : BOOLEAN, should_fails : {TRUE}, raises : {FALSE},
          run : {NoUploadFailure(table)}]
    \cup [id_query_fails : BOOLEAN, should_fails : {FALSE}, raises : {TRUE},
          run : {NoUploadFailure(table)}]

\* Whether the pass with failures f runs _upload_pending_metrics().
UploadRuns(f) ==
    ~f.raises /\ _should_upload(metrics, now, f.should_fails)

\* The run of the pass with failures f, when _get_admin_email gives email.
UploadRun(f, email) ==
    _upload_pending_metrics(metrics, identity, now, replicated_available,
                            admin_email_env, email, f.run)

\* Whether the pass reaches every call that f makes fail.
UploadReaches(f) ==
    LET reach_run == UploadRuns(f) /\ replicated_available
        reach_pending == /\ reach_run
                         /\ f.run.fail_at # "pending_query"
                         /\ PendingIds(metrics) # {}
        has_email == \/ admin_email_env # None
                     \/ (~f.run.admin_query_fails /\ EligibleUsers(users) # {})
        reach_identity == reach_pending /\ has_email
    IN  /\ f.run.fail_at = "pending_query" => reach_run
        /\ f.run.admin_query_fails => (reach_pending /\ admin_email_env = None)
        /\ f.run.fail_at \notin {"none", "pending_query"} => reach_identity
        /\ f.run.id_client_fails =>
               (reach_identity /\ identity.instance_id = None)
        /\ f.run.sends # AllSent(metrics) => reach_identity

\* What the run logs: why it skipped the upload, that it committed, or
\* "Error during metrics upload" -- raised before the identity row was
\* committed by _get_or_create_identity(), or after.
LogStage(stage) ==
    IF stage \in {"sdk_unavailable", "no_pending", "no_admin_email", "committed"}
    THEN stage
    ELSE IF stage \in {"query_failed", "identity_failed"}
    THEN "failed_before_identity"
    ELSE "failed_after_identity"

\* One pass of the body of _upload_loop() under the failures f.
UploadPass(f, email) ==
    LET identity_established ==
            _is_identity_established(identity, f.id_query_fails)
        run == UploadRun(f, email)
    IN  /\ UploadReaches(f)
        /\ email \in _get_admin_email(admin_email_env, users,
                                      f.run.admin_query_fails)
        /\ \A i \in PendingIds(metrics) :
               ~f.run.sends[i] => metrics[i].upload_attempts < MaxAttempts
        /\ metrics' = IF UploadRuns(f) THEN run.metrics ELSE metrics
        /\ identity' = IF UploadRuns(f) THEN run.identity ELSE identity
        /\ upload_pc' = SleepPc(f.raises)
        /\ upload_interval' =
               SleepInterval(f.raises, check_interval(identity_established))
        /\ upload_log' = IF UploadRuns(f)
                         THEN UploadLog(f.id_query_fails, LogStage(run.stage),
                                        run.client_called, run.sent)
                         ELSE UploadLog(f.id_query_fails, "none", FALSE, <<>>)

\* _upload_loop(): one pass, from the while test to the next sleep.
_upload_loop ==
    /\ Running(upload_pc)
    /\ ~upload_cancel
    /\ IF shutdown_event
       THEN /\ upload_pc' = "returned"
            /\ upload_interval' = 0
            /\ UNCHANGED <<db_vars, upload_log>>
       ELSE \E f \in UploadLoopFailures(metrics) :
                \E email \in _get_admin_email(admin_email_env, users,
                                               f.run.admin_query_fails) :
                    UploadPass(f, email)
    /\ UNCHANGED <<now, users, env_vars, call_vars, lifespan, shutdown_event,
                   task_vars, start_result, upload_cancel, collection_vars, initial_pc,
                   stop_pc>>

\* Mutant: the initial check collects whatever the table holds.
NoMetricsYet_unchecked(count) == TRUE

\* The test `count == 0` of line 257.
NoMetricsYet(count) == count = 0

\* _initial_collection_check(): the task start() spawns; it collects when
\* the metrics table is empty.  A failing count query is logged.
_initial_collection_check ==
    /\ initial_pc = "created"
    /\ initial_pc' = "done"
    /\ \E count_fails \in BOOLEAN, store_fails \in BOOLEAN,
          outcomes \in LoopOutcomes :
        metrics' = IF ~count_fails /\ NoMetricsYet(Len(metrics))
                   THEN _collect_metrics(metrics, now, outcomes, store_fails)
                   ELSE metrics
    /\ UNCHANGED <<now, identity, users, env_vars, call_vars, lifespan, shutdown_event,
                   task_vars, start_result, collection_vars, upload_vars, stop_pc>>

\* ------------------------------------------------------------- the system
Next ==
    \/ Advance
    \/ UserSignup
    \/ start /\ UNCHANGED lifespan
    \/ stop /\ UNCHANGED lifespan
    \/ stop_collection_awaited
    \/ stop_upload_awaited
    \/ collection_cancelled
    \/ upload_cancelled
    \/ _collection_loop
    \/ _upload_loop
    \/ _initial_collection_check

\* The whole system.
Spec == Init /\ [][Next]_vars

\* The lifespan of the application calls start() once, at startup.
lifespan_start ==
    /\ start_result = "none"
    /\ start
    /\ UNCHANGED lifespan

\* The service while it runs: started by the lifespan and not stopped.
RunNext ==
    \/ Advance
    \/ UserSignup
    \/ lifespan_start
    \/ _collection_loop
    \/ _upload_loop
    \/ _initial_collection_check

RunSpec == Init /\ [][RunNext]_vars

\* The life cycle of the service, start() to stop(), in a deployment that
\* has the client SDK and sets OPENHANDS_ADMIN_EMAIL (the user table is not
\* read).
LifecycleInit ==
    /\ Init
    /\ admin_email_env = EnvAdminEmail
    /\ replicated_available

LifecycleNext ==
    \/ Advance
    \/ start /\ UNCHANGED lifespan
    \/ stop /\ UNCHANGED lifespan
    \/ stop_collection_awaited
    \/ stop_upload_awaited
    \/ collection_cancelled
    \/ upload_cancelled
    \/ _collection_loop
    \/ _upload_loop
    \/ _initial_collection_check

LifecycleSpec == LifecycleInit /\ [][LifecycleNext]_vars

\* The event loop runs every task that is ready: a loop task that was
\* cancelled, and stop() when the task it awaits is done.  (Nothing is
\* assumed about when a sleep ends.)
FairLifecycleSpec ==
    /\ LifecycleSpec
    /\ WF_vars(stop_collection_awaited)
    /\ WF_vars(stop_upload_awaited)
    /\ WF_vars(collection_cancelled)
    /\ WF_vars(upload_cancelled)

\* --------------------------------------------------------- the event loop
\* Every task start() created has run its first step.  The event loop runs
\* the tasks that are ready in one iteration, before any callback scheduled
\* later and before the clock (in seconds) moves: the first steps of the
\* three tasks come before the resumption of a stop() that awaits one of
\* them, before a sleep ends, and before time passes.
FirstStepsDone == "created" \notin {collection_pc, upload_pc, initial_pc}

\* start() is called again after stop() has returned.
start_after_stop ==
    /\ stop_pc = "returned"
    /\ start
    /\ UNCHANGED lifespan

\* The service in its event loop: started once, stopped at any moment from
\* then on (also before the tasks have run), and started again after that.
EventLoopNext ==
    \/ FirstStepsDone /\ Advance
    \/ lifespan_start
    \/ start_result # "none" /\ stop /\ UNCHANGED lifespan
    \/ start_after_stop
    \/ FirstStepsDone /\ stop_collection_awaited
    \/ FirstStepsDone /\ stop_upload_awaited
    \/ collection_cancelled
    \/ upload_cancelled
    \/ (collection_pc = "created" \/ FirstStepsDone) /\ _collection_loop
    \/ (upload_pc = "created" \/ FirstStepsDone) /\ _upload_loop
    \/ _initial_collection_check

EventLoopSpec == LifecycleInit /\ [][EventLoopNext]_vars

\* ------------------------------------------------- the service kept running
\* The last instant of the clock: one upload interval after the last
\* instant at which the collection loop runs.
Horizon == MaxDays * SecondsPerDay + upload_interval_hours * SecondsPerHour

\* The instants at which the clock is read: a collection is due again at
\* each but the last, an upload at each.
RunInstants ==
    {d * SecondsPerDay : d \in {0, collection_interval_days}} \cup {Horizon}

\* Time passes, to the next of these instants.
TimePasses ==
    /\ \E t \in RunInstants :
          /\ t > now
          /\ \A u \in RunInstants : u > now => t <= u
          /\ now' = t
    /\ UNCHANGED <<db_vars, users, env_vars, call_vars, lifespan,
                   shutdown_event, task_vars, start_result, collection_vars,
                   upload_vars, initial_pc, stop_pc>>

\* The failures of a pass of the upload loop when the database works and
\* the calls of the external client fail for a while: before the last
\* instant the client can fail when the customer and the instance are
\* fetched and at any batch; at the last instant it fails no more.
TransientFailures(table, t) ==
    IF t < Horizon
    THEN [id_query_fails : {FALSE}, should_fails : {FALSE}, raises : {FALSE},
          run : [fail_at : {"none"}, admin_query_fails : {FALSE},
                 id_client_fails : {FALSE}, sends : SendResults(table)]
                \cup [fail_at : {"client"}, admin_query_fails : {FALSE},
                      id_client_fails : {FALSE}, sends : {AllSent(table)}]]
    ELSE [id_query_fails : {FALSE}, should_fails : {FALSE}, raises : {FALSE},
          run : {NoUploadFailure(table)}]

\* _upload_loop(): one pass while the service runs, with transient
\* failures.
upload_pass ==
    /\ Running(upload_pc)
    /\ ~upload_cancel
    /\ ~shutdown_event
    /\ \E f \in TransientFailures(metrics, now) :
           \E email \in _get_admin_email(admin_email_env, users,
                                          f.run.admin_query_fails) :
               UploadPass(f, email)
    /\ UNCHANGED <<now, users, env_vars, call_vars, lifespan, shutdown_event,
                   task_vars, start_result, upload_cancel, collection_vars,
                   initial_pc, stop_pc>>

\* What fails in a pass of the collection loop: nothing.
NoCollectionFailure ==
    [id_query_fails |-> FALSE, should_fails |-> FALSE,
     outcomes |-> AllCollect, store_fails |-> FALSE, raises |-> FALSE]

\* _collection_loop(): one pass while the service runs, up to the last
\* instant at which the loop runs.
collection_pass ==
    /\ now <= MaxDays * SecondsPerDay
    /\ Running(collection_pc)
    /\ ~collection_cancel
    /\ ~shutdown_event
    /\ CollectionPass(NoCollectionFailure)
    /\ UNCHANGED <<now, identity, users, env_vars, call_vars, lifespan,
                   shutdown_event, task_vars, start_result,
                   collection_cancel, upload_vars, initial_pc, stop_pc>>

\* The service started and never stopped, users signing up, time passing.
KeptRunningNext ==
    \/ TimePasses
    \/ UserSignup
    \/ lifespan_start
    \/ collection_pass
    \/ upload_pass
    \/ _initial_collection_check

\* A deployment that has the client SDK.
KeptRunningInit ==
    /\ Init
    /\ replicated_available

KeptRunningSpec == KeptRunningInit /\ [][KeptRunningNext]_vars

\* The upload loop gets its passes (its sleeps end) and time passes.
FairUploadSpec ==
    /\ KeptRunningSpec
    /\ WF_vars(upload_pass)
    /\ WF_vars(TimePasses)

\* --------------------------------------------------- telemetry_lifespan
\* Everything but the lifespan itself.
service_vars == <<now, db_vars, users, env_vars, call_vars, shutdown_event,
                  task_vars, start_result, collection_vars, upload_vars,
                  initial_pc, stop_pc>>

\* What a call of start() or of stop() can raise at once, as the tests of
\* the lifespan make it: nothing, or an Exception.
CallOutcomes == {"none", "Exception"}

\* Mutant: the lifespan has no except clause.
Caught_nothing(exc) == FALSE

\* The clauses `except Exception` of lines 27 and 37.
Caught(exc) == exc = "Exception"

\* Where the lifespan is after a call that raised exc ("none": returned):
\* at `after` when the call returned or the exception is caught, else the
\* exception leaves the lifespan.
AfterCall(exc, after) ==
    IF exc = "none" \/ Caught(exc) THEN after ELSE "raised"

\* The application enters the lifespan: start() is called, and the
\* generator runs to its yield (lines 22 to 32).
telemetry_lifespan_startup ==
    /\ lifespan.pc = "none"
    /\ \E exc \in CallOutcomes :
         /\ IF exc = "none" THEN start ELSE UNCHANGED service_vars
         /\ lifespan' = [lifespan EXCEPT
                !.pc = AfterCall(exc, "yield"),
                !.start = IF exc = "none" THEN "returned" ELSE "raised",
                !.raised_at = IF AfterCall(exc, "yield") = "raised"
                              THEN "start" ELSE @,
                !.start_calls = @ + 1]

\* The body of the `async with` raises: the exception is thrown into the
\* generator at the yield of line 32, which no try statement encloses, so
\* it leaves the lifespan and lines 34 to 39 do not run.
telemetry_lifespan_body_raises ==
    /\ lifespan.pc = "yield"
    /\ lifespan' = [lifespan EXCEPT !.pc = "raised", !.raised_at = "yield"]
    /\ UNCHANGED service_vars

\* The body of the `async with` ends: the generator is resumed after the
\* yield and calls stop() (lines 34 to 36), which raises at once, or runs
\* to its first await.
telemetry_lifespan_shutdown ==
    /\ lifespan.pc = "yield"
    /\ \E exc \in CallOutcomes :
         /\ IF exc = "none" THEN stop ELSE UNCHANGED service_vars
         /\ lifespan' = [lifespan EXCEPT
                !.pc = IF exc = "none" THEN "in_stop"
                       ELSE AfterCall(exc, "exited"),
                !.stop = IF exc = "none" THEN "called" ELSE "raised",
                !.raised_at = IF AfterCall(exc, "exited") = "raised"
                              THEN "stop" ELSE @,
                !.stop_calls = @ + 1]

\* stop() is over: the lifespan ends (lines 36 to 39).  A CancelledError
\* that stop() lets out is no Exception.
telemetry_lifespan_stopped ==
    /\ lifespan.pc = "in_stop"
    /\ stop_pc \in {"returned", "raised"}
    /\ LET exc == IF stop_pc = "raised" THEN "CancelledError" ELSE "none"
       IN lifespan' = [lifespan EXCEPT
                !.pc = AfterCall(exc, "exited"),
                !.stop = stop_pc,
                !.raised_at = IF AfterCall(exc, "exited") = "raised"
                              THEN "stop" ELSE @]
    /\ UNCHANGED service_vars

\* The service as the application runs it: started and stopped by the
\* lifespan only.
LifespanNext ==
    \/ Advance
    \/ telemetry_lifespan_startup
    \/ telemetry_lifespan_body_raises
    \/ telemetry_lifespan_shutdown
    \/ telemetry_lifespan_stopped
    \/ stop_collection_awaited
    \/ stop_upload_awaited
    \/ collection_cancelled
    \/ upload_cancelled
    \/ _collection_loop
    \/ _upload_loop
    \/ _initial_collection_check

LifespanSpec == LifecycleInit /\ [][LifespanNext]_vars

\* ----------------------------------------------------------- direct calls
\* The operations of the service called directly (as its tests call them),
\* on a table built by earlier calls, at instants around the two intervals.
UploadBoundary == upload_interval_hours * SecondsPerHour
CollectionBoundary == collection_interval_days * SecondsPerDay

\* The instants the clock is read at: each interval boundary, the second
\* before it and the second after it.
ProbeInstants ==
    {t \in {b + e : b \in {0, UploadBoundary, CollectionBoundary},
                    e \in {-1, 0, 1}} :
        t >= 0 /\ t <= MaxDays * SecondsPerDay}

\* Time passes between two calls.
Elapse ==
    /\ \E t \in ProbeInstants : t > now /\ now' = t
    /\ probe' = NoProbe
    /\ UNCHANGED <<db_vars, users, env_vars, arg_vars, lifespan,
                   shutdown_event, task_vars, start_result,
                   collection_vars, upload_vars, initial_pc, stop_pc>>

\* await service._collect_metrics()
call_collect_metrics ==
    /\ Len(metrics) < MaxBatches
    /\ \E outcomes \in [Collectors -> CollectorOutcomes], store_fails \in BOOLEAN :
        /\ metrics' = _collect_metrics(metrics, now, outcomes, store_fails)
        /\ probe' = [op |-> "_collect_metrics", outcomes |-> outcomes,
                     invoked |-> InvokedCollectors(outcomes),
                     store_fails |-> store_fails, before |-> metrics]
    /\ UNCHANGED <<now, identity, users, env_vars, arg_vars, lifespan,
                   shutdown_event, task_vars, start_result,
                   collection_vars, upload_vars, initial_pc, stop_pc>>

\* await service._upload_pending_metrics(), every call succeeding.  With
\* no pending batch the call returns at line 395 and changes nothing.
call_upload_pending_metrics ==
    /\ \E admin_email \in _get_admin_email(admin_email_env, users, FALSE) :
        LET run == _upload_pending_metrics(metrics, identity, now,
                       replicated_available, admin_email_env, admin_email,
                       NoUploadFailure(metrics))
        IN  /\ metrics' = run.metrics
            /\ identity' = run.identity
    /\ probe' = NoProbe
    /\ UNCHANGED <<now, users, env_vars, arg_vars, lifespan,
                   shutdown_event, task_vars, start_result, collection_vars,
                   upload_vars, initial_pc, stop_pc>>

\* service._should_collect()
call_should_collect ==
    /\ \E query_fails \in BOOLEAN :
        probe' = [op |-> "_should_collect", query_fails |-> query_fails,
                  result |-> _should_collect(metrics, now, query_fails)]
    /\ UNCHANGED <<now, db_vars, users, env_vars, arg_vars, lifespan,
                   shutdown_event, task_vars, start_result,
                   collection_vars, upload_vars, initial_pc, stop_pc>>

\* service._should_upload()
call_should_upload ==
    /\ \E query_fails \in BOOLEAN :
        probe' = [op |-> "_should_upload", query_fails |-> query_fails,
                  result |-> _should_upload(metrics, now, query_fails)]
    /\ UNCHANGED <<now, db_vars, users, env_vars, arg_vars, lifespan,
                   shutdown_event, task_vars, start_result,
                   collection_vars, upload_vars, initial_pc, stop_pc>>

ProbeNext ==
    \/ Elapse
    \/ call_collect_metrics
    \/ call_upload_pending_metrics
    \/ call_should_collect
    \/ call_should_upload

\* The service constructed and not started, in a deployment that has the
\* client SDK and sets OPENHANDS_ADMIN_EMAIL.
ProbeSpec == LifecycleInit /\ [][ProbeNext]_vars

\* ------------------------------------------------------- license warning
\* The instants the clock is read at around the warning threshold: the
\* threshold and the day after it, each with the second before and after.
WarningInstants ==
    {t \in {d * SecondsPerDay + e :
                d \in {0, license_warning_threshold_days,
                       license_warning_threshold_days + 1},
                e \in {-1, 0, 1}} :
        t >= 0 /\ t <= MaxDays * SecondsPerDay}

\* Time passes between two calls.
ElapseDays ==
    /\ \E t \in WarningInstants : t > now /\ now' = t
    /\ probe' = NoProbe
    /\ UNCHANGED <<db_vars, users, env_vars, arg_vars, lifespan,
                   shutdown_event, task_vars, start_result,
                   collection_vars, upload_vars, initial_pc, stop_pc>>

\* service.get_license_warning_status()
call_get_license_warning_status ==
    /\ \E query_fails \in BOOLEAN :
        probe' = [op |-> "get_license_warning_status",
                  query_fails |-> query_fails,
                  result |-> get_license_warning_status(metrics, now, query_fails)]
    /\ UNCHANGED <<now, db_vars, users, env_vars, arg_vars, lifespan,
                   shutdown_event, task_vars, start_result,
                   collection_vars, upload_vars, initial_pc, stop_pc>>

StatusNext ==
    \/ ElapseDays
    \/ call_collect_metrics
    \/ call_upload_pending_metrics
    \/ call_get_license_warning_status

\* The service constructed and not started; batches are stored and
\* uploaded by direct calls, and the UI asks for the warning status.
StatusSpec == LifecycleInit /\ [][StatusNext]_vars

\* ---------------------------------------------------------- DomainBlocker
\* The block lists a blocker is given: none; one exact pattern; one TLD
\* pattern; each of them in upper case; an exact pattern that holds a dot;
\* and lists of two patterns.
BlockLists ==
    {<<>>,
     <<<<"a">>>>, <<<<".", "a">>>>,
     <<<<"A">>>>, <<<<".", "A">>>>,
     <<<<"a", ".", "b">>>>,
     <<<<".", "a">>, <<"b">>>>, <<<<"b">>, <<"a">>>>}

\* The emails a call is given: None and every string of at most MaxEmailLen
\* characters.
Emails == {NullStr} \cup Strings(MaxEmailLen)

\* A blocker with its block list, about to be asked about an email.
BlockerInit ==
    /\ TelemetryInit
    /\ admin_email_env = None
    /\ ~replicated_available
    /\ probe = NoProbe
    /\ blocked_domains \in BlockLists
    /\ email_arg \in Emails
    /\ sharing = NoSharing
    /\ sandboxes = <<>>

\* domain_blocker.is_domain_blocked(email)
call_is_domain_blocked ==
    /\ probe = NoProbe
    /\ probe' = [op |-> "is_domain_blocked",
                 domain |-> TestedDomain(blocked_domains, email_arg),
                 result |-> is_domain_blocked(blocked_domains, email_arg)]
    /\ UNCHANGED <<now, db_vars, users, env_vars, arg_vars, lifespan,
                   shutdown_event, task_vars, start_result, collection_vars,
                   upload_vars, initial_pc, stop_pc>>

BlockerNext == call_is_domain_blocked

BlockerSpec == BlockerInit /\ [][BlockerNext]_vars

\* ------------------------------------------------- SharedEventServiceImpl
\* The conversation ids of the calls.
Conversations == {"A", "B"}

\* The id no event has: the event argument of a call for a missing event,
\* and the result None of get_shared_event().
NoEvent == 0

\* shared_conversation_info_service.get_shared_conversation_info(): the
\* conversation when it is shared, else None.
get_shared_conversation_info(s, conversation_id) ==
    IF conversation_id \in s.shared THEN conversation_id ELSE None

\* The ids of the events the event service lets its caller see: those of
\* the conversations its conversation info service returns.
PermittedEvents(s) ==
    {i \in DOMAIN s.events : s.events[i] \in s.permitted}

\* event_service.get_event(event_id): the event of that id, whatever its
\* conversation, when the caller may see it, else None.
get_event(s, event_id) ==
    IF event_id \in PermittedEvents(s) THEN event_id ELSE NoEvent

\* The events of one conversation that the caller may see, oldest first.
RECURSIVE EventsOf(_, _, _)
EventsOf(s, conversation_id, i) ==
    IF i > Len(s.events) THEN <<>>
    ELSE (IF i \in PermittedEvents(s) /\ s.events[i] = conversation_id
          THEN <<i>> ELSE <<>>) \o EventsOf(s, conversation_id, i + 1)

\* event_service.search_events(conversation_id__eq=..., limit=...): the
\* first page.
search_events(s, conversation_id, limit) ==
    LET found == EventsOf(s, conversation_id, 1)
    IN [items |-> SubSeq(found, 1, IF Len(found) < limit THEN Len(found)
                                   ELSE limit),
        next_page_id |-> IF Len(found) > limit THEN found[limit + 1]
                         ELSE NoEvent]

\* event_service.count_events(conversation_id__eq=...)
count_events(s, conversation_id) == Len(EventsOf(s, conversation_id, 1))

\* Mutant: every conversation passes for shared.
NotShared_never(info) == FALSE

\* The test `shared_conversation_info is None` of lines 55, 77 and 103.
NotShared(info) == info = None

\* The methods of the sharing service.
SharingOps ==
    {"get_shared_event", "search_shared_events", "count_shared_events"}

\* What a method returns when the conversation is not shared: None (line
\* 56), an empty page (line 79), 0 (line 104).
NotSharedResult(op) ==
    IF op = "search_shared_events"
    THEN [items |-> <<>>, next_page_id |-> NoEvent]
    ELSE IF op = "get_shared_event" THEN NoEvent
    ELSE 0

\* The method of the event service each method goes on to (lines 59, 81,
\* 111).
EventServiceMethod(op) ==
    IF op = "get_shared_event" THEN "get_event"
    ELSE IF op = "search_shared_events" THEN "search_events"
    ELSE "count_events"

\* What that method answers on the store s.  arg is the event id of
\* get_shared_event and the limit of search_shared_events.
EventServiceAnswer(s, op, conversation_id, arg) ==
    IF op = "get_shared_event" THEN get_event(s, arg)
    ELSE IF op = "search_shared_events"
    THEN search_events(s, conversation_id, arg)
    ELSE count_events(s, conversation_id)

\* A call of the sharing service is suspended at one of its two awaits.
SharingInFlight ==
    /\ probe.op \in SharingOps
    /\ probe.pc # "returned"

\* A method is called: it calls get_shared_conversation_info() and is
\* suspended until that service answers (lines 50-54, 72-76, 98-102).
SharingCalled(op, conversation_id, arg) ==
    [op |-> op, conversation_id |-> conversation_id, arg |-> arg,
     pc |-> "get_shared_conversation_info",
     calls |-> <<"get_shared_conversation_info">>]

\* The event stores: up to MaxEvents events, each of one conversation.
EventStores ==
    UNION {[1..n -> Conversations] : n \in 0..MaxEvents}

\* A sharing service over some conversations and events; the telemetry
\* service and the blocker are idle.
SharingInit ==
    /\ TelemetryInit
    /\ admin_email_env = None
    /\ ~replicated_available
    /\ probe = NoProbe
    /\ blocked_domains = <<>>
    /\ email_arg = NullStr
    /\ sandboxes = <<>>
    /\ sharing \in [shared : SUBSET Conversations,
                    permitted : SUBSET Conversations,
                    events : EventStores, saves : {<<>>}]

\* What the sharing service and its collaborators leave alone.
sharing_unchanged ==
    UNCHANGED <<now, db_vars, users, env_vars, blocked_domains, email_arg,
                sandboxes, lifespan, shutdown_event, task_vars,
                start_result, collection_vars, upload_vars, initial_pc,
                stop_pc>>

\* get_shared_event(conversation_id, event_id) is called.
call_get_shared_event ==
    /\ ~SharingInFlight
    /\ \E conversation_id \in Conversations,
          event_id \in 1..(MaxEvents + 1) :
         probe' = SharingCalled("get_shared_event", conversation_id, event_id)
    /\ UNCHANGED sharing
    /\ sharing_unchanged

\* search_shared_events(conversation_id, limit=limit) is called.
call_search_shared_events ==
    /\ ~SharingInFlight
    /\ \E conversation_id \in Conversations, limit \in 1..MaxEvents :
         probe' = SharingCalled("search_shared_events", conversation_id, limit)
    /\ UNCHANGED sharing
    /\ sharing_unchanged

\* count_shared_events(conversation_id) is called.
call_count_shared_events ==
    /\ ~SharingInFlight
    /\ \E conversation_id \in Conversations :
         probe' = SharingCalled("count_shared_events", conversation_id, 0)
    /\ UNCHANGED sharing
    /\ sharing_unchanged

\* get_shared_conversation_info() answers from the conversations as they
\* are now, and the method goes on: it returns at once when the answer is
\* None (lines 55-56, 77-79, 103-104), else it calls the event service and
\* is suspended again (lines 59, 81, 111).
shared_conversation_info_awaited ==
    /\ SharingInFlight
    /\ probe.pc = "get_shared_conversation_info"
    /\ LET info == get_shared_conversation_info(sharing,
                                                probe.conversation_id)
       IN  probe' =
             IF NotShared(info)
             THEN [op |-> probe.op,
                   conversation_id |-> probe.conversation_id,
                   arg |-> probe.arg, pc |-> "returned",
                   calls |-> probe.calls, info |-> info,
                   result |-> NotSharedResult(probe.op)]
             ELSE [op |-> probe.op,
                   conversation_id |-> probe.conversation_id,
                   arg |-> probe.arg, pc |-> "event_service",
                   calls |-> Append(probe.calls,
                                    EventServiceMethod(probe.op)),
                   info |-> info]
    /\ UNCHANGED sharing
    /\ sharing_unchanged

\* The event service answers from the events as they are now, and the
\* method returns that answer.
event_service_awaited ==
    /\ SharingInFlight
    /\ probe.pc = "event_service"
    /\ probe' = [op |-> probe.op,
                 conversation_id |-> probe.conversation_id,
                 arg |-> probe.arg, pc |-> "returned",
                 calls |-> probe.calls, info |-> probe.info,
                 result |-> EventServiceAnswer(sharing, probe.op,
                               probe.conversation_id, probe.arg)]
    /\ UNCHANGED sharing
    /\ sharing_unchanged

\* s without its k-th element.
Without(s, k) == SubSeq(s, 1, k - 1) \o SubSeq(s, k + 1, Len(s))

\* FilesystemEventService.save_event(conversation_id, event) is called by
\* another task: it calls get_app_conversation_info() and is suspended
\* until that service answers (lines 58-62).  Each call in flight can add
\* an event, so the calls in flight are bounded with the store.
save_event ==
    /\ Len(sharing.events) + Len(sharing.saves) < MaxEvents
    /\ \E conversation_id \in Conversations :
         sharing' = [sharing EXCEPT !.saves =
             Append(@, [conversation_id |-> conversation_id,
                        pc |-> "get_app_conversation_info",
                        conversation |-> None])]
    /\ UNCHANGED probe
    /\ sharing_unchanged

\* get_app_conversation_info() reads the conversations as they are now:
\* the conversation when the service returns it, else None.  The call
\* of save_event stays suspended until the answer is delivered.
app_conversation_info_read ==
    /\ \E k \in DOMAIN sharing.saves :
         /\ sharing.saves[k].pc = "get_app_conversation_info"
         /\ sharing' = [sharing EXCEPT
               !.saves[k].pc = "answered",
               !.saves[k].conversation =
                   IF sharing.saves[k].conversation_id \in sharing.permitted
                   THEN sharing.saves[k].conversation_id ELSE None]
    /\ UNCHANGED probe
    /\ sharing_unchanged

\* save_event is resumed with the answer: without a conversation it
\* raises OpenHandsError and stores nothing (lines 63-65), else it writes
\* the event (line 66).
save_event_awaited ==
    /\ \E k \in DOMAIN sharing.saves :
         /\ sharing.saves[k].pc = "answered"
         /\ sharing' = [sharing EXCEPT
               !.saves = Without(@, k),
               !.events = IF sharing.saves[k].conversation = None THEN @
                          ELSE Append(@, sharing.saves[k].conversation_id)]
    /\ UNCHANGED probe
    /\ sharing_unchanged

\* save_app_conversation_info(info), called by another task: the
\* conversation is stored for its owner, public or private.
save_app_conversation_info ==
    /\ \E conversation_id \in Conversations, public \in BOOLEAN :
         sharing' = [sharing EXCEPT
             !.permitted = @ \cup {conversation_id},
             !.shared = IF public THEN @ \cup {conversation_id}
                        ELSE @ \ {conversation_id}]
    /\ UNCHANGED probe
    /\ sharing_unchanged

SharingNext ==
    \/ call_get_shared_event
    \/ call_search_shared_events
    \/ call_count_shared_events
    \/ shared_conversation_info_awaited
    \/ event_service_awaited
    \/ save_event
    \/ app_conversation_info_read
    \/ save_event_awaited
    \/ save_app_conversation_info

SharingSpec == SharingInit /\ [][SharingNext]_vars

\* --------------------------------------------------------- SandboxService
\* The statuses of the sandboxes a service starts with: running, and two
\* that are not.
SandboxStatuses == {"RUNNING", "PAUSED", "STARTING"}

\* The creation times: few enough that two sandboxes can share one.
CreatedAts == 1..2

\* What a pause_sandbox() call does: return True, return False, raise.
PauseOutcomes == {"true", "false", "raise"}

\* The sandboxes the page iterator yields with status RUNNING (line 89),
\* in the order it yields them.  A sandbox's id is its place in the list;
\* a deleted sandbox keeps its place with the status MISSING.
RunningSandboxes(sbs) ==
    SelectSeq([i \in DOMAIN sbs |-> i],
              LAMBDA i : sbs[i].status = "RUNNING")

\* Mutant: newest first.
RECURSIVE SortByCreatedAt_desc(_, _)
SortByCreatedAt_desc(sbs, ids) ==
    IF ids = <<>> THEN <<>>
    ELSE LET first == Max({sbs[ids[k]].created_at : k \in DOMAIN ids})
             k0 == Min({k \in DOMAIN ids : sbs[ids[k]].created_at = first})
         IN  <<ids[k0]>> \o SortByCreatedAt_desc(sbs,
                 SubSeq(ids, 1, k0 - 1) \o SubSeq(ids, k0 + 1, Len(ids)))

\* list.sort(key=created_at) (line 97): oldest first, and stable.
RECURSIVE SortByCreatedAt(_, _)
SortByCreatedAt(sbs, ids) ==
    IF ids = <<>> THEN <<>>
    ELSE LET first == Min({sbs[ids[k]].created_at : k \in DOMAIN ids})
             k0 == Min({k \in DOMAIN ids : sbs[ids[k]].created_at = first})
         IN  <<ids[k0]>> \o SortByCreatedAt(sbs,
                 SubSeq(ids, 1, k0 - 1) \o SubSeq(ids, k0 + 1, Len(ids)))

\* Lines 93 to 102: the sandboxes to pause, given the running ones that
\* were listed: none when they are at most max_num_sandboxes, else the
\* oldest ones beyond that number.
sandboxes_to_pause(sbs, running_sandboxes, max_num_sandboxes) ==
    LET sorted == SortByCreatedAt(sbs, running_sandboxes)
        num_to_pause == Len(running_sandboxes) - max_num_sandboxes
    IN  IF Len(running_sandboxes) <= max_num_sandboxes THEN <<>>
        ELSE SubSeq(sorted, 1, num_to_pause)

\* Mutant: an exception of pause_sandbox() ends the loop.
AfterPause_abort(to_pause, outcome) ==
    IF outcome = "raise" THEN <<>> ELSE Tail(to_pause)

\* The for loop of lines 106 to 113 goes on to the next sandbox whatever
\* pause_sandbox() did.
AfterPause(to_pause, outcome) == Tail(to_pause)

\* pause_sandbox(id) returned True: the sandbox is being paused.
Paused(sbs, id) == [sbs EXCEPT ![id].status = "PAUSED"]

\* What pause_sandbox(id) can do: False is the answer for a sandbox that
\* does not exist, and an implementation may fail on any.
PauseAnswers(sbs, id) ==
    IF sbs[id].status = "MISSING" THEN {"false", "raise"}
    ELSE PauseOutcomes

\* The sandbox lists: up to MaxSandboxes sandboxes.
SandboxLists ==
    UNION {[1..n -> [status : SandboxStatuses, created_at : CreatedAts]] :
              n \in 0..MaxSandboxes}

\* A sandbox service with some sandboxes; the telemetry service, the
\* blocker and the sharing service are idle.
SandboxInit ==
    /\ TelemetryInit
    /\ admin_email_env = None
    /\ ~replicated_available
    /\ probe = NoProbe
    /\ blocked_domains = <<>>
    /\ email_arg = NullStr
    /\ sharing = NoSharing
    /\ sandboxes \in SandboxLists

\* What the sandbox service leaves alone.
sandbox_unchanged ==
    UNCHANGED <<now, db_vars, users, env_vars, blocked_domains, email_arg,
                sharing, lifespan, shutdown_event, task_vars,
                start_result, collection_vars, upload_vars, initial_pc,
                stop_pc>>

\* pause_old_sandboxes(max_num_sandboxes) is called: it raises ValueError
\* (lines 84-85), or calls search_sandboxes() through the page iterator and
\* is suspended until the page arrives (line 89).
call_pause_old_sandboxes ==
    /\ probe = NoProbe
    /\ \E max_num_sandboxes \in (0 - 1)..MaxSandboxes :
         probe' = [op |-> "pause_old_sandboxes",
                   max_num_sandboxes |-> max_num_sandboxes,
                   pc |-> IF max_num_sandboxes <= 0 THEN "returned"
                          ELSE "search_sandboxes",
                   raised |-> IF max_num_sandboxes <= 0 THEN "ValueError"
                              ELSE "none",
                   searched |-> FALSE,
                   running_sandboxes |-> <<>>, to_pause |-> <<>>,
                   attempted |-> <<>>, outcomes |-> <<>>,
                   result |-> <<>>]
    /\ UNCHANGED sandboxes
    /\ sandbox_unchanged

\* search_sandboxes() answers with the sandboxes as they are now (one
\* page: there are fewer than limit=100); the method keeps the running
\* ones, returns [] when they are within the limit, else sorts, takes the
\* oldest and calls pause_sandbox() for the first of them (lines 89-108).
search_sandboxes_awaited ==
    /\ probe.op = "pause_old_sandboxes"
    /\ probe.pc = "search_sandboxes"
    /\ LET running_sandboxes == RunningSandboxes(sandboxes)
           to_pause == sandboxes_to_pause(sandboxes, running_sandboxes,
                                          probe.max_num_sandboxes)
       IN  probe' = [probe EXCEPT
               !.searched = TRUE,
               !.running_sandboxes = running_sandboxes,
               !.to_pause = to_pause,
               !.pc = IF to_pause = <<>> THEN "returned"
                      ELSE "pause_sandbox"]
    /\ UNCHANGED sandboxes
    /\ sandbox_unchanged

\* pause_sandbox() answers for the sandbox the loop is at, as it is now;
\* the loop records a True answer and calls pause_sandbox() for the next
\* sandbox, or the method returns (lines 106-115).
pause_sandbox_awaited ==
    /\ probe.op = "pause_old_sandboxes"
    /\ probe.pc = "pause_sandbox"
    /\ LET id == Head(probe.to_pause)
       IN  \E outcome \in PauseAnswers(sandboxes, id) :
             LET rest == AfterPause(probe.to_pause, outcome)
             IN  /\ sandboxes' = IF outcome = "true"
                                 THEN Paused(sandboxes, id)
                                 ELSE sandboxes
                 /\ probe' = [probe EXCEPT
                        !.attempted = Append(@, id),
                        !.outcomes = Append(@, outcome),
                        !.result = IF outcome = "true" THEN Append(@, id)
                                   ELSE @,
                        !.to_pause = rest,
                        !.pc = IF rest = <<>> THEN "returned"
                               ELSE "pause_sandbox"]
    /\ sandbox_unchanged

\* start_sandbox(), called by another task: a new sandbox, no older than
\* any other, starting or already running.
start_sandbox ==
    /\ Len(sandboxes) < MaxSandboxes
    /\ \E status \in {"STARTING", "RUNNING"}, created_at \in CreatedAts :
         /\ \A i \in DOMAIN sandboxes :
               sandboxes[i].created_at <= created_at
         /\ sandboxes' = Append(sandboxes, [status |-> status,
                                            created_at |-> created_at])
    /\ UNCHANGED probe
    /\ sandbox_unchanged

\* resume_sandbox(id), called by another task, for a paused sandbox.
resume_sandbox ==
    /\ \E id \in DOMAIN sandboxes :
         /\ sandboxes[id].status = "PAUSED"
         /\ sandboxes' = [sandboxes EXCEPT ![id].status = "RUNNING"]
    /\ UNCHANGED probe
    /\ sandbox_unchanged

\* pause_sandbox(id), called by another task, for a running sandbox.
pause_sandbox ==
    /\ \E id \in DOMAIN sandboxes :
         /\ sandboxes[id].status = "RUNNING"
         /\ sandboxes' = Paused(sandboxes, id)
    /\ UNCHANGED probe
    /\ sandbox_unchanged

\* delete_sandbox(id), called by another task, for a sandbox that exists.
delete_sandbox ==
    /\ \E id \in DOMAIN sandboxes :
         /\ sandboxes[id].status # "MISSING"
         /\ sandboxes' = [sandboxes EXCEPT ![id].status = "MISSING"]
    /\ UNCHANGED probe
    /\ sandbox_unchanged

SandboxNext ==
    \/ call_pause_old_sandboxes
    \/ search_sandboxes_awaited
    \/ pause_sandbox_awaited
    \/ start_sandbox
    \/ resume_sandbox
    \/ pause_sandbox
    \/ delete_sandbox

SandboxSpec == SandboxInit /\ [][SandboxNext]_vars

\* ------------------------------------------------------------ properties
\* The identity row exists with customer_id and instance_id both non-null.
Established(ident) ==
    ident.exists /\ ident.customer_id # None /\ ident.instance_id # None

\* An admin e-mail can be resolved: the environment variable is set or a
\* user row has both accepted_tos and email.
AdminResolvable ==
    \/ admin_email_env # None
    \/ \E k \in 1..Len(users) :
           users[k].accepted_tos # NoTime /\ users[k].email # None

\* A step that is a pass of the upload loop (or changes nothing): the
\* upload task is at a sleep afterwards and nothing that only another
\* action writes has changed.
UploadTick ==
    /\ upload_pc \in {"created", "sleep", "errsleep"}
    /\ ~upload_cancel
    /\ ~shutdown_event
    /\ upload_pc' \in {"sleep", "errsleep"}
    /\ Len(metrics') = Len(metrics)
    /\ UNCHANGED <<now, users, start_result, initial_pc, stop_pc,
                   collection_vars>>

\* A step that is a pass of the collection loop (or changes nothing).
CollectionTick ==
    /\ collection_pc \in {"created", "sleep", "errsleep"}
    /\ ~collection_cancel
    /\ ~shutdown_event
    /\ collection_pc' \in {"sleep", "errsleep"}
    /\ (metrics' = metrics \/ Len(metrics') = Len(metrics) + 1)
    /\ UNCHANGED <<now, users, identity, start_result, initial_pc, stop_pc,
                   upload_vars>>

\* C1: while stop() has not been called, a started service has both loop
\* tasks running (not returned, not cancelled), whatever failed in the
\* passes so far, and each loop can take its next pass.
C1_LoopsKeepRunning ==
    (collection_task # 0 /\ ~shutdown_event) =>
        /\ collection_pc \in {"created", "sleep", "errsleep"}
        /\ upload_pc \in {"created", "sleep", "errsleep"}
        /\ ENABLED _collection_loop
        /\ ENABLED _upload_loop

\* C1 witness: both loops sit in the sleep of their error handler, an
\* exception having reached each of them, after a batch was collected.
C1_Witness ==
    /\ ~shutdown_event
    /\ collection_pc = "errsleep"
    /\ upload_pc = "errsleep"
    /\ Len(metrics) > 0

\* C2: stop() returns with the shutdown event set and both loop tasks
\* finished; no exception leaves stop(); and a stop() that waits for a task
\* goes on to return.
C2_StopReturns ==
    /\ [][(stop_pc # "returned" /\ stop_pc' = "returned") =>
              /\ shutdown_event'
              /\ collection_task # 0 => collection_pc' \in {"returned", "cancelled"}
              /\ upload_task # 0 => upload_pc' \in {"returned", "cancelled"}]_vars
    /\ [](stop_pc # "raised")
    /\ (stop_pc \in {"await_collection", "await_upload"}) ~> (stop_pc = "returned")

\* C2 witness: stop() has returned after cancelling one loop that did not
\* catch the cancellation (it had not run yet or slept in the error
\* handler) and one that slept after a normal pass.
C2_Witness ==
    /\ stop_pc = "returned"
    /\ collection_pc = "cancelled"
    /\ upload_pc = "returned"
    /\ upload_log.stage = "committed"

\* C3: when a task handle is set, no step changes the handles, creates a
\* task, or puts a loop task or the initial collection check back at its
\* start.
C3_StartIdempotent ==
    [][(collection_task # 0 \/ upload_task # 0) =>
          /\ collection_task' = collection_task
          /\ upload_task' = upload_task
          /\ tasks_created' = tasks_created
          /\ collection_pc' = "created" => collection_pc = "created"
          /\ upload_pc' = "created" => upload_pc = "created"
          /\ initial_pc' = "created" => initial_pc = "created"]_vars

\* C3 witness: start() was called on a started service, after the loops
\* and the initial check had run.
C3_Witness ==
    /\ start_result = "already_started"
    /\ tasks_created = 3
    /\ collection_pc = "sleep"
    /\ upload_pc = "sleep"
    /\ initial_pc = "done"

\* C4 as stated: after a pass of the upload loop whose run met a failing
\* database or client call, the loop sleeps the bootstrap interval.
C4_ErrorSleepsBootstrap ==
    (/\ upload_pc \in {"sleep", "errsleep"}
     /\ upload_log.stage \in {"failed_before_identity", "failed_after_identity"})
    => upload_interval = bootstrap_check_interval_seconds

\* C5: after a pass that no exception left, a loop sleeps the normal
\* interval when the identity was established before the pass and the
\* identity query did not fail, and the bootstrap interval otherwise.
C5_IntervalFollowsPhase ==
    [][/\ (UploadTick /\ upload_pc' = "sleep") =>
              upload_interval' =
                  IF Established(identity) /\ ~upload_log'.id_query_failed
                  THEN normal_check_interval_seconds
                  ELSE bootstrap_check_interval_seconds
       /\ (CollectionTick /\ collection_pc' = "sleep") =>
              collection_interval' =
                  IF Established(identity) /\ ~collection_log'.id_query_failed
                  THEN normal_check_interval_seconds
                  ELSE bootstrap_check_interval_seconds]_vars

\* C5 witness: the upload pass that established the identity sleeps the
\* bootstrap interval.
C5_Witness ==
    /\ upload_pc = "sleep"
    /\ upload_log.stage = "committed"
    /\ ~upload_log.id_query_failed
    /\ Established(identity)
    /\ upload_interval = bootstrap_check_interval_seconds

\* C6: in an upload run that commits, every pending batch is sent; one
\* whose send fails gets last_upload_error and one more attempt and stays
\* pending, one whose send succeeds gets uploaded_at = now and no error,
\* whatever happened to the other batches.
C6_BatchesIndependent ==
    [][(UploadTick /\ upload_log'.stage = "committed") =>
          LET sent == upload_log'.sent IN
          /\ {sent[k].id : k \in 1..Len(sent)} =
                 {i \in 1..Len(metrics) : metrics[i].uploaded_at = NoTime}
          /\ \A k \in 1..Len(sent) :
                 LET before == metrics[sent[k].id]
                     after == metrics'[sent[k].id]
                 IN  /\ after.upload_attempts = before.upload_attempts + 1
                     /\ IF sent[k].ok
                        THEN /\ after.uploaded_at = now
                             /\ after.last_upload_error = None
                        ELSE /\ after.uploaded_at = NoTime
                             /\ after.last_upload_error # None]_vars

\* C6 witness: a run in which a batch failed and a later batch was
\* uploaded.
C6_Witness ==
    /\ upload_log.stage = "committed"
    /\ \E j, k \in 1..Len(upload_log.sent) :
           /\ j < k
           /\ ~upload_log.sent[j].ok
           /\ upload_log.sent[k].ok
           /\ metrics[upload_log.sent[j].id].last_upload_error # None
           /\ metrics[upload_log.sent[k].id].uploaded_at # NoTime

\* C7: with no OPENHANDS_ADMIN_EMAIL and no user that has both accepted_tos
\* and email, a pass of the upload loop changes no batch and no identity
\* row and calls no client.
C7_NoAdminEmailNoChange ==
    [][(UploadTick /\ ~AdminResolvable) =>
          /\ metrics' = metrics
          /\ identity' = identity
          /\ ~upload_log'.client_called]_vars

\* C7 witness: a run found a pending batch and stopped for want of an admin
\* e-mail, with a user in the table.
C7_Witness ==
    /\ upload_log.stage = "no_admin_email"
    /\ ~AdminResolvable
    /\ Len(users) > 0
    /\ \E i \in 1..Len(metrics) : metrics[i].uploaded_at = NoTime
    /\ identity = NoIdentity

\* C8 as stated: when the identity is established a batch has been
\* uploaded.
C8_EstablishedImpliesUploaded ==
    Established(identity) =>
        \E i \in 1..Len(metrics) : metrics[i].uploaded_at # NoTime

\* C8 amended: the identity row is created by an upload run that found a
\* pending batch and an admin e-mail and called the client, with both ids
\* set, whether or not the run then uploads a batch.
C8_CreatedByUploadAttempt ==
    [][(~identity.exists /\ identity'.exists) =>
          /\ UploadTick
          /\ \E i \in 1..Len(metrics) : metrics[i].uploaded_at = NoTime
          /\ AdminResolvable
          /\ upload_log'.stage \in {"failed_after_identity", "committed"}
          /\ Established(identity')]_vars

\* C8 witness: the identity is established and no batch has been uploaded.
C8_Witness ==
    /\ Established(identity)
    /\ Len(metrics) > 0
    /\ \A i \in 1..Len(metrics) : metrics[i].uploaded_at = NoTime

\* C9: an upload run that starts with a pending batch, an admin e-mail and
\* no established identity, and whose identity query and commit succeed,
\* leaves the identity established: with the ids of the client, or with the
\* admin e-mail as customer_id and the client's or a locally generated
\* instance_id.
C9_IdentityDespiteClientFailure ==
    [][(/\ UploadTick
        /\ ~Established(identity)
        /\ upload_log'.stage \in {"failed_after_identity", "committed"}) =>
          /\ Established(identity')
          /\ \/ /\ identity'.customer_id = ReplicatedCustomerId
                /\ identity'.instance_id = ReplicatedInstanceId
             \/ /\ identity'.customer_id \in
                       {admin_email_env} \cup
                       {users[k].email : k \in 1..Len(users)}
                /\ identity'.customer_id # None
                /\ identity'.instance_id \in
                       {FallbackUuid, ReplicatedInstanceId}]_vars

\* C9 witness: the committed identity carries the admin e-mail and the
\* locally generated instance id, after a run that failed.
C9_Witness ==
    /\ identity.exists
    /\ identity.customer_id \in
           {admin_email_env} \cup {users[k].email : k \in 1..Len(users)}
    /\ identity.customer_id # None
    /\ identity.instance_id = FallbackUuid
    /\ upload_log.stage = "failed_after_identity"

\* C10: no step takes an established identity to one that is not
\* established.
C10_IdentityStaysEstablished ==
    [][Established(identity) => Established(identity')]_vars

\* C10 witness: the identity is still established after an upload run that
\* failed and after one that replaced its ids.
C10_Witness ==
    /\ Established(identity)
    /\ identity.customer_id = ReplicatedCustomerId
    /\ upload_log.stage = "failed_before_identity"

\* The batches that carry the most recent uploaded_at.
LatestUploaded ==
    {i \in Ids(metrics) :
        /\ metrics[i].uploaded_at # NoTime
        /\ \A j \in Ids(metrics) : metrics[j].uploaded_at <= metrics[i].uploaded_at}

\* The batches that carry the most recent collected_at.
LatestCollected ==
    {i \in Ids(metrics) :
        \A j \in Ids(metrics) : metrics[j].collected_at <= metrics[i].collected_at}

\* The number of whole days in e seconds.
WholeDays(e) ==
    CHOOSE d \in 0..(MaxDays + 1) :
        d * SecondsPerDay <= e /\ e < (d + 1) * SecondsPerDay

\* C11: a call of _should_upload() answers true exactly when its query
\* succeeds and either no batch was ever uploaded and a batch with
\* uploaded_at null exists, or a batch was uploaded and at least
\* upload_interval_hours hours have passed since the most recent
\* uploaded_at.
C11_ShouldUploadDecision ==
    probe.op = "_should_upload" =>
        (probe.result <=>
            /\ ~probe.query_fails
            /\ \/ /\ \A i \in Ids(metrics) : metrics[i].uploaded_at = NoTime
                  /\ \E i \in Ids(metrics) : metrics[i].uploaded_at = NoTime
               \/ \E i \in LatestUploaded :
                      now - metrics[i].uploaded_at
                          >= upload_interval_hours * SecondsPerHour)

\* C11 witness: _should_upload() answered false one second before 24 hours
\* had passed since the last upload, with a newer batch pending.
C11_Witness ==
    /\ probe.op = "_should_upload"
    /\ ~probe.query_fails
    /\ ~probe.result
    /\ \E i \in LatestUploaded :
        /\ now - metrics[i].uploaded_at = upload_interval_hours * SecondsPerHour - 1
        /\ \E j \in Ids(metrics) :
            /\ metrics[j].uploaded_at = NoTime
            /\ metrics[j].collected_at > metrics[i].uploaded_at

\* C12: a call of _should_collect() answers true exactly when its query
\* succeeds and either no batch exists or the whole days since the latest
\* collected_at number at least collection_interval_days; so from the
\* instant a batch is stored until 7 days later it answers false.
C12_ShouldCollectDecision ==
    probe.op = "_should_collect" =>
        /\ probe.result <=>
               /\ ~probe.query_fails
               /\ \/ Len(metrics) = 0
                  \/ \E i \in LatestCollected :
                         WholeDays(now - metrics[i].collected_at)
                             >= collection_interval_days
        /\ (\E i \in LatestCollected :
                now - metrics[i].collected_at
                    < collection_interval_days * SecondsPerDay)
               => ~probe.result

\* C12 witness: _should_collect() answered false one second before 7 days
\* had passed since the latest batch was stored.
C12_Witness ==
    /\ probe.op = "_should_collect"
    /\ ~probe.query_fails
    /\ ~probe.result
    /\ \E i \in LatestCollected :
           now - metrics[i].collected_at
               = collection_interval_days * SecondsPerDay - 1

\* C13: the batches an upload run sent to the client were sent in ascending
\* collected_at order: none was sent before one collected earlier.
C13_AscendingCollectedAt ==
    \A j \in 1..Len(upload_log.sent) : \A k \in 1..Len(upload_log.sent) :
        j < k => metrics[upload_log.sent[j].id].collected_at
                     <= metrics[upload_log.sent[k].id].collected_at

\* C13 witness: a run sent two batches collected at different instants.
C13_Witness ==
    /\ Len(upload_log.sent) = 2
    /\ metrics[upload_log.sent[1].id].collected_at
           # metrics[upload_log.sent[2].id].collected_at

\* C14: a call of _collect_metrics() invoked every registered collector
\* once, whatever each of them did, and (its insert succeeding) added
\* exactly one batch, collected now, that holds the results of the
\* collectors that accepted and returned.
C14_EveryCollectorRuns ==
    probe.op = "_collect_metrics" =>
        /\ {probe.invoked[k] : k \in 1..Len(probe.invoked)} = Collectors
        /\ Len(probe.invoked) = Cardinality(Collectors)
        /\ ~probe.store_fails =>
               /\ Len(metrics) = Len(probe.before) + 1
               /\ \A i \in Ids(probe.before) : metrics[i] = probe.before[i]
               /\ metrics[Len(metrics)].metrics_data
                      = {c \in Collectors : probe.outcomes[c] = "ok"}
               /\ metrics[Len(metrics)].collected_at = now
               /\ metrics[Len(metrics)].uploaded_at = NoTime
        /\ probe.store_fails => metrics = probe.before

\* C14 witness: the first collector raised, and the batch of the run holds
\* the result of the second.
C14_Witness ==
    /\ probe.op = "_collect_metrics"
    /\ ~probe.store_fails
    /\ probe.outcomes["c1"] = "raise"
    /\ probe.outcomes["c2"] = "ok"
    /\ Len(metrics) = Len(probe.before) + 1
    /\ metrics[Len(metrics)].metrics_data = {"c2"}

\* ------------------------------------------- properties of DomainBlocker
\* An is_domain_blocked() call has returned.
Called == probe.op = "is_domain_blocked"

\* 'user@': the local part of the emails of C15, and the at sign.
UserAt == <<"b", "@">>

\* What follows 'user@' in an email that starts with it.
AfterUser(e) == SubSeq(e, Len(UserAt) + 1, Len(e))

\* What follows the first '@' of an email that has one.
AfterFirstAt(e) == SubSeq(e, Min(Positions(e, "@")) + 1, Len(e))

\* d is r without its leading and trailing whitespace, in lower case.
IsTrimmedLower(d, r) ==
    \E i \in 1..(Len(r) + 1) : \E j \in 0..Len(r) :
        /\ j - i + 1 = Len(d)
        /\ \A k \in 1..(i - 1) : r[k] = " "
        /\ \A k \in (j + 1)..Len(r) : r[k] = " "
        /\ \A k \in 1..Len(d) : d[k] = LowerChar(r[i + k - 1])
        /\ Len(d) > 0 => (d[1] # " " /\ d[Len(d)] # " ")

\* r has only whitespace (or nothing at all).
IsBlank(r) == \A k \in 1..Len(r) : r[k] = " "

\* A string of letters and dots: no '@', no whitespace.
IsPlain(r) == \A k \in 1..Len(r) : r[k] \notin {"@", " "}

\* The block list holds one pattern, P, without a leading dot.
OneExactPattern ==
    /\ Len(blocked_domains) = 1
    /\ ~StartsWith(blocked_domains[1], <<".">>)

\* The forms of C15 for what follows 'user@': P; S.P with S non-empty;
\* XP with X non-empty and not ending with a dot; P.O with O non-empty.
IsSubdomainOf(r, P) ==
    Len(r) > Len(P) + 1 /\ EndsWith(r, <<".">> \o P)
IsPrefixed(r, P) ==
    Len(r) > Len(P) /\ EndsWith(r, P) /\ r[Len(r) - Len(P)] # "."
IsSuffixed(r, P) ==
    Len(r) > Len(P) + 1 /\ StartsWith(r, P \o <<".">>)

\* C15 as stated: with one exact pattern P, 'user@P' and 'user@S.P' are
\* blocked for every non-empty S, and 'user@XP' (X non-empty, not ending
\* with a dot) and 'user@P.O' (O non-empty) are not.
C15_ExactPatternAsStated ==
    (Called /\ OneExactPattern /\ StartsWith(email_arg, UserAt)) =>
        LET P == blocked_domains[1]
            r == AfterUser(email_arg)
        IN  /\ (r = P \/ IsSubdomainOf(r, P)) => probe.result
            /\ (IsPrefixed(r, P) \/ IsSuffixed(r, P)) => ~probe.result

\* C15 amended: with one exact pattern P in lower case, and S, X, O
\* non-empty strings without '@' and whitespace: 'user@P' and 'user@S.P'
\* are blocked, 'user@XP' is not when X does not end with a dot, and
\* 'user@P.O' is not unless P.O in lower case itself ends with '.P'.
C15_ExactPattern ==
    (/\ Called /\ OneExactPattern /\ StartsWith(email_arg, UserAt)
     /\ blocked_domains[1] = Lower(blocked_domains[1])
     /\ IsPlain(AfterUser(email_arg))) =>
        LET P == blocked_domains[1]
            r == AfterUser(email_arg)
        IN  /\ (r = P \/ IsSubdomainOf(r, P)) => probe.result
            /\ IsPrefixed(r, P) => ~probe.result
            /\ (IsSuffixed(r, P) /\ ~EndsWith(Lower(r), <<".">> \o P))
                   => ~probe.result

\* C15 witness: with the pattern 'a', the email 'b@a.b' (P.O) was found
\* not blocked.
C15_Witness ==
    /\ Called
    /\ blocked_domains = <<<<"a">>>>
    /\ email_arg = <<"b", "@", "a", ".", "b">>
    /\ ~probe.result

\* C16: with one TLD pattern '.X' in the list, is_domain_blocked() answers
\* true exactly when the email has a domain and the domain, trimmed and
\* lower-cased, ends with the characters '.X'; the domain of an email with
\* one '@' is what follows the '@'.
C16_TldLiteralSuffix ==
    (/\ Called
     /\ Len(blocked_domains) = 1
     /\ StartsWith(blocked_domains[1], <<".">>)) =>
        /\ probe.result <=>
               /\ probe.domain # NullStr
               /\ EndsWith(probe.domain, blocked_domains[1])
        /\ (email_arg # NullStr /\ Cardinality(Positions(email_arg, "@")) = 1) =>
               IF IsBlank(AfterFirstAt(email_arg))
               THEN probe.domain = NullStr
               ELSE IsTrimmedLower(probe.domain, AfterFirstAt(email_arg))

\* C16 witness: with the pattern '.a', the email 'b@b.A' was found
\* blocked.
C16_Witness ==
    /\ Called
    /\ blocked_domains = <<<<".", "a">>>>
    /\ email_arg = <<"b", "@", "b", ".", "A">>
    /\ probe.result

\* Two block lists that differ in the letter case of their patterns only.
SameUpToCase(list1, list2) ==
    /\ Len(list1) = Len(list2)
    /\ \A k \in 1..Len(list1) : Lower(list1[k]) = Lower(list2[k])

\* C17 as stated: the answer of is_domain_blocked() is the answer it gives
\* with any block list that differs only in the letter case of its
\* patterns.
C17_PatternCaseIgnored ==
    Called =>
        \A patterns \in BlockLists :
            SameUpToCase(patterns, blocked_domains) =>
                is_domain_blocked(patterns, email_arg) = probe.result

\* C18 as stated: the domain is_domain_blocked() tests is everything after
\* the first '@' of the email, trimmed and lower-cased.
C18_DomainAfterFirstAt ==
    (/\ Called
     /\ is_active(blocked_domains)
     /\ email_arg # NullStr
     /\ Contains(email_arg, "@")) =>
        IF IsBlank(AfterFirstAt(email_arg))
        THEN probe.domain = NullStr
        ELSE IsTrimmedLower(probe.domain, AfterFirstAt(email_arg))

\* The letter in the other case.
SwapCase(c) == IF c = "a" THEN "A" ELSE IF c = "A" THEN "a" ELSE c

\* e with a whitespace character put in before position k.
WithSpaceAt(e, k) == SubSeq(e, 1, k - 1) \o <<" ">> \o SubSeq(e, k, Len(e))

\* The emails that differ from e in the case of some letters.
CaseVariants(e) ==
    {[k \in 1..Len(e) |-> IF k \in T THEN SwapCase(e[k]) ELSE e[k]] :
        T \in SUBSET (1..Len(e))}

\* The emails that are e with whitespace before it, after it, right after
\* an '@' or right before one.
WhitespaceVariants(e) ==
    {WithSpaceAt(e, 1), WithSpaceAt(e, Len(e) + 1)}
    \cup {WithSpaceAt(e, k + 1) : k \in Positions(e, "@")}
    \cup {WithSpaceAt(e, k) : k \in Positions(e, "@") \ {Min(Positions(e, "@") \cup {0})}}

\* C19: the answer of is_domain_blocked() for an email is the answer for
\* the same email in any other letter case, and with whitespace added
\* before it, after it or around its domain.
C19_EmailCaseAndWhitespace ==
    (Called /\ email_arg # NullStr) =>
        \A v \in CaseVariants(email_arg) \cup WhitespaceVariants(email_arg) :
            is_domain_blocked(blocked_domains, v) = probe.result

\* C19 witness: with the pattern 'a', the email 'b@ A ' was found blocked.
C19_Witness ==
    /\ Called
    /\ blocked_domains = <<<<"a">>>>
    /\ email_arg = <<"b", "@", " ", "A", " ">>
    /\ probe.result

\* C20: a call of is_domain_blocked() returns a boolean and leaves the
\* block list as it was; it returns false when the block list is empty,
\* the email is null or empty or has no '@', or nothing but whitespace
\* follows the '@'.
C20_FalseWithoutDomain ==
    [][(probe = NoProbe /\ probe'.op = "is_domain_blocked") =>
           /\ blocked_domains' = blocked_domains
           /\ probe'.result \in BOOLEAN
           /\ (\/ blocked_domains = <<>>
               \/ NotStr(email_arg)
               \/ ~Contains(email_arg, "@")
               \/ IsBlank(AfterFirstAt(email_arg)))
                  => probe'.result = FALSE]_vars

\* C20 witness: with the pattern 'a', the email 'a' (no '@') was found not
\* blocked.
C20_Witness ==
    /\ Called
    /\ blocked_domains = <<<<"a">>>>
    /\ email_arg = <<"a">>
    /\ ~probe.result

\* ------------------------------------------ properties of the status call
\* C21: a call of get_license_warning_status() changes no batch and no
\* identity; its query succeeding, it reports a warning exactly when a
\* batch was uploaded and the whole days since the most recent uploaded_at
\* exceed license_warning_threshold_days, with days_since_upload that
\* number of days; with no uploaded batch (or a failing query) it reports
\* no warning and no days.
C21_LicenseWarning ==
    [][(probe'.op = "get_license_warning_status" /\ probe' # probe) =>
           /\ metrics' = metrics
           /\ identity' = identity
           /\ IF probe'.query_fails \/ LatestUploaded = {}
              THEN /\ ~probe'.result.should_warn
                   /\ probe'.result.days_since_upload = NoDays
              ELSE \E i \in LatestUploaded :
                      LET days == WholeDays(now - metrics[i].uploaded_at)
                      IN  /\ probe'.result.days_since_upload = days
                          /\ probe'.result.should_warn
                                 <=> days > license_warning_threshold_days]_vars

\* C21 witness: the status was asked one second before the fifth day after
\* the last upload ended: 4 days, no warning.
C21_Witness ==
    /\ probe.op = "get_license_warning_status"
    /\ ~probe.query_fails
    /\ ~probe.result.should_warn
    /\ probe.result.days_since_upload = license_warning_threshold_days
    /\ \E i \in LatestUploaded :
           now - metrics[i].uploaded_at
               = (license_warning_threshold_days + 1) * SecondsPerDay - 1

\* ---------------------------------------------------------------- C22
\* The lifespan has left the server-run phase.
LeftServerRun ==
    \/ lifespan.pc \in {"in_stop", "exited"}
    \/ lifespan.raised_at \in {"yield", "stop"}

\* What C22 says of start(): called exactly once before the server-run
\* phase, which is reached also when start() raises, and no exception of
\* start() or stop() leaves the lifespan.
FailOpen ==
    /\ lifespan.pc # "none" => lifespan.start_calls = 1
    /\ lifespan.pc = "none" => lifespan.start_calls = 0
    /\ lifespan.raised_at \notin {"start", "stop"}
    /\ lifespan.pc \in {"none", "yield"} => lifespan.stop_calls = 0
    /\ lifespan.stop_calls <= 1

\* C22 as stated: the lifespan is fail-open, and on exit from the
\* server-run phase stop() is called exactly once.
C22_LifespanAsStated ==
    /\ FailOpen
    /\ LeftServerRun => lifespan.stop_calls = 1

\* C22, amended: the lifespan calls start() exactly once before the
\* server-run phase and reaches that phase also when start() raises; when
\* the server-run phase ends normally it calls stop() exactly once, never
\* before, also after a failed start; no exception of start() or of stop()
\* leaves the lifespan; when the server-run phase itself raises, that
\* exception leaves the lifespan and stop() is not called.
C22_Lifespan ==
    /\ FailOpen
    /\ lifespan.pc \in {"in_stop", "exited"} => lifespan.stop_calls = 1
    /\ lifespan.raised_at = "yield" => lifespan.stop_calls = 0

\* start() raised, the server-run phase was reached and ended, stop() was
\* called once and raised too, and the lifespan ended without an exception.
C22_Witness ==
    /\ lifespan.pc = "exited"
    /\ lifespan.start = "raised"
    /\ lifespan.stop = "raised"
    /\ lifespan.start_calls = 1
    /\ lifespan.stop_calls = 1

\* ---------------------------------------------------------------- C23
\* The calls of the sharing-service call in `probe` that went to the event
\* service.
EventServiceCalls ==
    {i \in DOMAIN probe.calls :
        probe.calls[i] \in {"get_event", "search_events", "count_events"}}

\* The step at which get_shared_conversation_info() answers a call.
SharedCheckStep ==
    /\ SharingInFlight
    /\ probe.pc = "get_shared_conversation_info"
    /\ probe' # probe

\* C23: in every call of the sharing service the shared-status check is
\* the first call made, before any access to the events; and when the
\* check finds the conversation not shared, the call returns there --
\* get_shared_event None, search_shared_events an empty page without a
\* next page id, count_shared_events 0 -- and the event service is not
\* queried, whatever other tasks store meanwhile.
C23_NotSharedNoAccess ==
    [][/\ probe'.op \in SharingOps =>
            /\ probe'.calls[1] = "get_shared_conversation_info"
            /\ 1 \notin EventServiceCalls'
       /\ (SharedCheckStep /\ probe.conversation_id \notin sharing.shared)
            => /\ probe'.pc = "returned"
               /\ EventServiceCalls' = {}
               /\ probe.op = "get_shared_event" => probe'.result = NoEvent
               /\ probe.op = "search_shared_events" =>
                     /\ probe'.result.items = <<>>
                     /\ probe'.result.next_page_id = NoEvent
               /\ probe.op = "count_shared_events" => probe'.result = 0
      ]_vars

\* A search in a conversation that is not shared, is known to the event
\* service and holds every event of a full store has returned: an empty
\* page, and only the shared-status check was called.
C23_Witness ==
    /\ probe.op = "search_shared_events"
    /\ probe.pc = "returned"
    /\ probe.info = None
    /\ probe.conversation_id \notin sharing.shared
    /\ probe.conversation_id \in sharing.permitted
    /\ \A i \in DOMAIN sharing.events :
          sharing.events[i] = probe.conversation_id
    /\ Len(sharing.events) = MaxEvents
    /\ probe.result.items = <<>>
    /\ probe.calls = <<"get_shared_conversation_info">>

\* ---------------------------------------------------------------- C26
\* C26: get_shared_event(conversation_id, event_id) returns an event only
\* if the event belongs to the conversation conversation_id and that
\* conversation is shared; it never returns an event of a conversation
\* that is not shared.
C26_OnlySharedEvents ==
    [][(/\ SharingInFlight
        /\ probe.op = "get_shared_event"
        /\ probe.pc = "event_service"
        /\ probe'.pc = "returned"
        /\ probe'.result # NoEvent) =>
            /\ sharing.events[probe'.result] = probe.conversation_id
            /\ probe.conversation_id \in sharing.shared
            /\ sharing.events[probe'.result] \in sharing.shared
      ]_vars

\* ---------------------------------------------------------------- C25
\* The elements of a sequence.
Range(seq) == {seq[k] : k \in DOMAIN seq}

\* The step at which search_sandboxes() answers the call.
ListingStep ==
    /\ probe.op = "pause_old_sandboxes"
    /\ probe.pc = "search_sandboxes"
    /\ probe' # probe

\* The sandboxes the call listed as RUNNING.
Listed == Range(probe.running_sandboxes)

\* What holds of a call of pause_old_sandboxes(max), suspended or
\* returned.
PauseOldestSoFar ==
    LET R == Len(probe.running_sandboxes)
        max == probe.max_num_sandboxes
        tried == Range(probe.attempted)
        left == Range(probe.to_pause)
    IN  IF max <= 0
        THEN /\ probe.pc = "returned"
             /\ probe.raised = "ValueError"
             /\ ~probe.searched
             /\ probe.attempted = <<>>
        ELSE /\ probe.raised = "none"
             /\ Len(probe.attempted) = Cardinality(tried)
             /\ tried \subseteq Listed
             /\ \A i \in tried, j \in Listed \ (tried \cup left) :
                   sandboxes[i].created_at <= sandboxes[j].created_at
             /\ Len(probe.result) = Cardinality(Range(probe.result))
             /\ Range(probe.result)
                   = {probe.attempted[k] : k \in
                         {k \in DOMAIN probe.attempted :
                              probe.outcomes[k] = "true"}}
             /\ (probe.searched /\ probe.pc = "pause_sandbox") =>
                   /\ left # {}
                   /\ Cardinality(tried \cup left) = R - max
             /\ probe.pc = "returned" =>
                   Cardinality(tried) = IF R > max THEN R - max ELSE 0

\* C25: with max > 0, pause_old_sandboxes(max) calls pause_sandbox() for
\* exactly R - max of the R sandboxes its listing found RUNNING when
\* R > max and for none when R <= max, each once; those it calls it for
\* were listed as running and are no younger than any listed running
\* sandbox it leaves alone; a call that raises or returns False does not
\* stop the others; the result holds exactly the ids whose call returned
\* True.  With max <= 0 it raises ValueError, lists nothing and calls
\* pause_sandbox() for none.
C25_PauseOldest ==
    [][/\ ListingStep =>
            Range(probe'.running_sandboxes)
                = {i \in DOMAIN sandboxes : sandboxes[i].status = "RUNNING"}
       /\ probe'.op = "pause_old_sandboxes" => PauseOldestSoFar'
      ]_vars

\* Three sandboxes listed as running and max = 1: the two oldest were
\* tried, the first call raised, the second returned True and is the
\* result.
C25_Witness ==
    /\ probe.op = "pause_old_sandboxes"
    /\ probe.pc = "returned"
    /\ probe.max_num_sandboxes = 1
    /\ Len(probe.running_sandboxes) = 3
    /\ Len(probe.attempted) = 2
    /\ probe.outcomes = <<"raise", "true">>
    /\ probe.result = <<probe.attempted[2]>>

\* ---------------------------------------------------------------- C27
\* C27: once the shutdown event is set, no step of the collection loop, of
\* the upload loop or of the initial collection check stores a batch or
\* makes an upload run.
C27_NoWorkAfterShutdown ==
    [][shutdown_event =>
          /\ metrics' = metrics
          /\ identity' = identity
          /\ upload_log' = upload_log]_vars

\* ---------------------------------------------------------------- C28
\* A step that is the first pass of the collection loop.
FirstCollectionTick ==
    collection_pc = "created" /\ collection_pc' \in {"sleep", "errsleep"}

\* A step that is the run of the initial collection check.
InitialCheckRun == initial_pc = "created" /\ initial_pc' = "done"

\* C28: after a start on an empty table, the first pass of the collection
\* loop and the initial collection check leave at most one batch in the
\* table: whichever of them stores a batch found the table empty, and the
\* other then finds it non-empty.
C28_OneInitialBatch ==
    [][(FirstCollectionTick \/ InitialCheckRun) =>
          /\ Len(metrics') <= 1
          /\ metrics' # metrics => metrics = <<>>]_vars

\* Both have run, no other pass has (the upload loop has not had its first
\* step, so no sleep has ended), and the table holds one batch.
C28_Witness ==
    /\ initial_pc = "done"
    /\ collection_pc = "sleep"
    /\ upload_pc = "created"
    /\ ~shutdown_event
    /\ Len(metrics) = 1

\* ---------------------------------------------------------------- C30
\* C30: once stop() has returned on a scheduler that had been started, no
\* step -- a later start() included -- creates a task, clears the shutdown
\* event, or stores or uploads a batch, and the two task handles refer to
\* tasks that have finished.
C30_NoRestart ==
    [][stop_pc = "returned" =>
          /\ task_vars' = task_vars
          /\ collection_task' # 0 /\ upload_task' # 0
          /\ Finished(collection_pc') /\ Finished(upload_pc')
          /\ initial_pc' = "done"
          /\ shutdown_event'
          /\ metrics' = metrics
          /\ identity' = identity
          /\ upload_log' = upload_log]_vars

\* start() was called after stop() had returned, and found the service
\* already started: the handles are those of the finished tasks.
C30_Witness ==
    /\ stop_pc = "returned"
    /\ start_result = "already_started"
    /\ tasks_created = 3
    /\ Finished(collection_pc)
    /\ Finished(upload_pc)
    /\ shutdown_event

\* ---------------------------------------------------------------- C29
\* C29: a batch that has uploaded_at set is never changed again -- not its
\* uploaded_at, upload_attempts, last_upload_error or metrics_data -- no
\* pass of the upload loop sends it to the client again, and the table
\* never loses a row.
C29_UploadedIsFinal ==
    [][/\ Len(metrics') >= Len(metrics)
       /\ \A i \in UploadedIds(metrics) : metrics'[i] = metrics[i]
       /\ UploadTick =>
             \A k \in DOMAIN upload_log'.sent :
                 upload_log'.sent[k].id \notin UploadedIds(metrics)]_vars

\* A second upload run has sent the second batch, seven days after the
\* first batch was uploaded, and the first batch is as it was.
C29_Witness ==
    /\ Len(metrics) = 2
    /\ metrics[1].uploaded_at = 0
    /\ metrics[1].upload_attempts = 1
    /\ metrics[2].uploaded_at = now
    /\ now > 0
    /\ upload_log.sent = <<[id |-> 2, ok |-> TRUE]>>

\* ---------------------------------------------------------------- C24
\* C24: when the client SDK is available and an admin e-mail can be
\* resolved, every batch with uploaded_at null gets uploaded_at set
\* eventually, given that the upload loop keeps getting its passes, that
\* time passes and that the failures of the client are transient: from a
\* state with pending batches a state with none is reached, and as no row
\* is ever deleted, each of those batches has uploaded_at set by then.
C24_EventuallyUploaded ==
    (PendingIds(metrics) # {} /\ replicated_available /\ AdminResolvable)
        ~> (PendingIds(metrics) = {})

\* Two batches were pending together; a run uploaded the second and failed
\* on the first, which had to wait a day for the next run and was uploaded
\* then.
C24_Witness ==
    /\ Len(metrics) = 2
    /\ metrics[1].uploaded_at = metrics[2].uploaded_at + SecondsPerDay
    /\ metrics[1].upload_attempts = 2
    /\ metrics[2].upload_attempts = 1

====
